---- MODULE Spec2Model ----
(***************************************************************************)
(* Model of link-aggregator (src/link-aggregator.js, class Aggregator):    *)
(* the Redis-backed article cache (getUrlDetails / fetchUrlDetails), the   *)
(* record merger (mergeUrls), the URL canonicalizer (removeJunkURLParams)  *)
(* and the run coordinator (fetchLists).                                   *)
(*                                                                         *)
(* Time: timestamps that the code holds in milliseconds are counted in     *)
(* units of 86400 ms, timestamps it holds in seconds (Pocket time_added)   *)
(* in units of 86400 s, so that the code's "* 1000" conversion is kept and *)
(* msInAWeek, msInAMonth fit TLC's integers.                               *)
(***************************************************************************)
EXTENDS Integers, Sequences, FiniteSets, TLC

(***************************************************************************)
(* Bounds                                                                  *)
(***************************************************************************)
\* Number of getUrlDetails calls that may be started in one behaviour.
MaxCalls == 2

(***************************************************************************)
(* Program constants                                                       *)
(***************************************************************************)
msInAWeek == 7000
msInAMonth == 30000
\* Date.now(): the instant of the run.
Now == 100000

(***************************************************************************)
(* Sequence helpers (Ramda)                                                *)
(***************************************************************************)
Contains(s, x) == \E i \in 1..Len(s) : s[i] = x

RECURSIVE Uniq(_)
Uniq(s) ==
  IF s = <<>> THEN <<>>
  ELSE LET init == SubSeq(s, 1, Len(s) - 1)
           last == s[Len(s)]
       IN IF Contains(init, last) THEN Uniq(init) ELSE Append(Uniq(init), last)

\* R.union(l1, l2): the elements of both lists, without duplicates.
RUnion(l1, l2) == Uniq(l1 \o l2)

RECURSIVE SeqFilterOut(_, _)
SeqFilterOut(s, keys) ==
  IF s = <<>> THEN <<>>
  ELSE IF s[1][1] \in keys THEN SeqFilterOut(Tail(s), keys)
       ELSE <<s[1]>> \o SeqFilterOut(Tail(s), keys)

Range(s) == {s[i] : i \in 1..Len(s)}

\* The element of a one-element set.  { e : x \in {v} } holds e with x
\* standing for the value of v, so that Only of it is e with v computed
\* once, as a const of the code is.
Only(S) == CHOOSE x \in S : TRUE

(***************************************************************************)
(* URLs.  A URL string is modelled by its parts: host, the query as the    *)
(* sequence of <<key, value>> pairs written in it, and the hash fragment.  *)
(***************************************************************************)
NoUrl == [host |-> "", query |-> <<>>, hash |-> ""]

UA  == [host |-> "a.com", query |-> <<>>, hash |-> ""]
UAj == [host |-> "a.com", query |-> << <<"utm_source", "tw">> >>, hash |-> ""]
UB  == [host |-> "b.com", query |-> <<>>, hash |-> ""]

\* URLs that mentions and HTTP responses may carry.
RawUrls == {UA, UAj, UB}

\* A rule of a removeConfig list: a parameter name, or a per-domain rule
\* whose domain is an array of hosts or one string.
ParamRule(name) ==
  [kind |-> "string", name |-> name, domain |-> <<>>, domainString |-> "",
   params |-> <<>>, removeHash |-> FALSE]
DomainRule(domain, params, removeHash) ==
  [kind |-> "object", name |-> "", domain |-> domain, domainString |-> "",
   params |-> params, removeHash |-> removeHash]
DomainStringRule(domain, params, removeHash) ==
  [kind |-> "object", name |-> "", domain |-> <<>>, domainString |-> domain,
   params |-> params, removeHash |-> removeHash]

\* default-junk-params: global parameter names and per-domain rules.
defaultJunkParams ==
  << ParamRule("utm_source"),
     ParamRule("ref"),
     DomainRule(<<"www.nytimes.com">>, <<"_r">>, FALSE),
     DomainRule(<<"medium.com">>, <<>>, TRUE) >>

\* querystring decoding done by url.parse(url, true) on one written value:
\* one level of percent-encoding is taken off.
QueryUnescape(v) ==
  CASE v = "x%20y" -> "x y"
    [] v = "x%2520y" -> "x%20y"
    [] v = "x%252520y" -> "x%2520y"
    [] OTHER -> v

encodeURIComponent(v) ==
  CASE v = "x y" -> "x%20y"
    [] v = "x%20y" -> "x%2520y"
    [] v = "x%2520y" -> "x%252520y"
    [] OTHER -> v

RECURSIVE ParseQuery(_)
ParseQuery(q) ==
  IF q = <<>> THEN <<>>
  ELSE << <<q[1][1], QueryUnescape(q[1][2])>> >> \o ParseQuery(Tail(q))

\* objToFormattedURLParams: the first value is written as it is, every
\* further value is written through encodeURIComponent.
objToFormattedURLParams(params) ==
  [i \in 1..Len(params) |->
     IF i = 1 THEN params[i]
     ELSE <<params[i][1], encodeURIComponent(params[i][2])>>]

\* String.prototype.indexOf(hostname) !== -1 on the hosts in play: the
\* hostname occurs somewhere in the string.
OccursIn(hostname, string) ==
  \/ hostname = string
  \/ hostname = "nytimes.com" /\ string = "www.nytimes.com"

\* param.domain.indexOf(urlParsed.hostname) !== -1, on an array or on a
\* string.
domainMatches(param, hostname) ==
  IF param.domainString # "" THEN OccursIn(hostname, param.domainString)
  ELSE Contains(param.domain, hostname)

\* Names deleted from the query of a URL on host h by the rule list.
RemovedParams(h, removeParams) ==
  {removeParams[i].name : i \in {j \in 1..Len(removeParams) : removeParams[j].kind = "string"}}
  \cup UNION {Range(removeParams[i].params) :
                i \in {j \in 1..Len(removeParams) :
                         /\ removeParams[j].kind = "object"
                         /\ domainMatches(removeParams[j], h)}}

HashRemoved(h, removeParams) ==
  \E i \in 1..Len(removeParams) :
     /\ removeParams[i].kind = "object"
     /\ domainMatches(removeParams[i], h)
     /\ removeParams[i].removeHash

removeJunkURLParamsWith(url, removeParams) ==
  LET query == SeqFilterOut(ParseQuery(url.query), RemovedParams(url.host, removeParams))
  IN [host  |-> url.host,
      query |-> objToFormattedURLParams(query),
      hash  |-> IF HashRemoved(url.host, removeParams) THEN "" ELSE url.hash]

removeJunkURLParams(url) == removeJunkURLParamsWith(url, defaultJunkParams)

\* Cache keys: the canonical forms of the URLs in play.
Keys == {removeJunkURLParams(u) : u \in RawUrls}

(***************************************************************************)
(* Mentions (urlMeta): { tweetObj } or { pocketObj }.                      *)
(***************************************************************************)
T1 == [kind |-> "tweet", id_str |-> "t1", favorite_count |-> 1, retweet_count |-> 0,
       listOwner |-> "o", listName |-> "l", text |-> "one", created_at |-> Now - 2000,
       screen_name |-> "s1", username |-> "", tag |-> "", time_added |-> 0,
       item_id |-> ""]
T2 == [kind |-> "tweet", id_str |-> "t2", favorite_count |-> 2, retweet_count |-> 1,
       listOwner |-> "o", listName |-> "l", text |-> "two", created_at |-> Now - 1000,
       screen_name |-> "s2", username |-> "", tag |-> "", time_added |-> 0,
       item_id |-> ""]
P1 == [kind |-> "pocket", id_str |-> "", favorite_count |-> 0, retweet_count |-> 0,
       listOwner |-> "", listName |-> "", text |-> "", created_at |-> 0,
       screen_name |-> "", username |-> "u", tag |-> "g", time_added |-> 99,
       item_id |-> "p1"]

Tweets == {T1, T2}
\* Mentions that the callers of getUrlDetails pass in.
Mentions == {T1, T2}

(***************************************************************************)
(* Objects stored in the cache and handed to callbacks.  A JSON object is  *)
(* a record with every field the code reads; an absent field holds the     *)
(* falsy value of its type (hasSource tells whether source is defined).    *)
(***************************************************************************)
EmptyObj ==
  [scraperError |-> "", isRemoved |-> FALSE, redirect |-> NoUrl,
   url |-> NoUrl, title |-> <<>>, excerpt |-> <<>>, articleTimestamp |-> 0,
   hasSource |-> FALSE, source |-> <<>>, sourceDetails |-> <<>>, categories |-> <<>>,
   tweetTexts |-> <<>>, tweetIDs |-> <<>>, tweetMentionCount |-> 0,
   tweetFavoriteCount |-> 0, tweetRetweetCount |-> 0,
   tweetFirstMentionMS |-> 0, tweetLastMentionMS |-> 0,
   pocketTag |-> <<>>, pocketTimeAdded |-> <<>>, pocketID |-> <<>>, timestamp |-> 0,
   rankRaw |-> 0, rank |-> 0]

\* Kinds of cache entry, as getUrlDetails tells them apart.
IsScrapeError(o) == o.scraperError # ""
IsRemoved(o) == o.isRemoved
IsRedirect(o) == o.redirect # NoUrl
IsResolved(o) == ~IsScrapeError(o) /\ ~IsRemoved(o) /\ ~IsRedirect(o) /\ o.hasSource

\* Category rules (setCategories) and the words of the texts matched.
categories ==
  << [name |-> "Foo", keywords |-> <<"foo">>],
     [name |-> "Bar", keywords |-> <<"bar">>] >>

UrlWords(u) == IF u = NoUrl THEN <<"undefined">> ELSE <<"https", u.host>>

\* The rule's regexp is [^&]\bk1\b|\bk2\b|...: the first keyword needs a
\* character before it, so it cannot match at the very start of the text.
MatchesCategory(text, category) ==
  \E i \in 1..Len(text), j \in 1..Len(category.keywords) :
     /\ text[i] = category.keywords[j]
     /\ (j = 1 => i > 1)

RECURSIVE CategoryNames(_, _)
CategoryNames(text, cats) ==
  IF cats = <<>> THEN <<>>
  ELSE (IF MatchesCategory(text, cats[1]) THEN <<cats[1].name>> ELSE <<>>)
       \o CategoryNames(text, Tail(cats))

\* _getCategoriesFromText(text, categories); an undefined text is <<>>.
getCategoriesFromText(text, cats) ==
  IF text = <<>> THEN <<>> ELSE CategoryNames(text, cats)

\* new Date(created_at).getTime()
DateGetTime(created_at) == created_at

\* "Init if necessary": a record without a source gets the empty lists and
\* zero counters.
InitIfNeeded(url1) ==
  IF ~url1.hasSource
  THEN [url1 EXCEPT !.hasSource = TRUE, !.source = <<>>, !.sourceDetails = <<>>,
                    !.categories = <<>>, !.tweetTexts = <<>>, !.tweetIDs = <<>>,
                    !.tweetMentionCount = 0, !.tweetFavoriteCount = 0,
                    !.tweetRetweetCount = 0, !.tweetFirstMentionMS = 0,
                    !.tweetLastMentionMS = 0, !.pocketTag = <<>>,
                    !.pocketTimeAdded = <<>>, !.pocketID = <<>>]
  ELSE url1

tweetAlreadyProcessedNever(mergedUrlObj, urlMeta) == FALSE

\* "No-op if tweet was already processed."
tweetAlreadyProcessed(mergedUrlObj, urlMeta) ==
  urlMeta.kind = "tweet" /\ Contains(mergedUrlObj.tweetIDs, urlMeta.id_str)

\* The text `${mergedUrlObj.url} ${mergedUrlObj.title}`.
urlPlusTitle(mergedUrlObj) ==
  UrlWords(mergedUrlObj.url)
  \o (IF mergedUrlObj.title = <<>> THEN <<"undefined">> ELSE mergedUrlObj.title)

mergedCategoriesWithExcerpt(mergedUrlObj) ==
  RUnion(getCategoriesFromText(urlPlusTitle(mergedUrlObj), categories),
         getCategoriesFromText(mergedUrlObj.excerpt, categories))

\* "Get categories from url and title", with the fallback to the excerpt.
mergedCategories(mergedUrlObj) ==
  LET fromUrlTitle == getCategoriesFromText(urlPlusTitle(mergedUrlObj), categories)
  IN IF Len(fromUrlTitle) = 0
     THEN getCategoriesFromText(mergedUrlObj.excerpt, categories)
     ELSE fromUrlTitle

\* mergeUrls(url1, urlMeta): merges a mention into a record.
mergeUrls(url1, urlMeta) ==
  LET m0 == InitIfNeeded(url1)
      tweetTimeMS == DateGetTime(urlMeta.created_at)
      timeAddedMS == urlMeta.time_added * 1000
      m1 == CASE urlMeta.kind = "tweet" ->
                   [m0 EXCEPT
                      !.tweetFirstMentionMS =
                          IF Len(m0.source) = 0 THEN tweetTimeMS ELSE @,
                      !.tweetLastMentionMS =
                          IF Len(m0.source) = 0 THEN tweetTimeMS ELSE @,
                      !.tweetTexts =
                          RUnion(@, <<"@" \o urlMeta.screen_name \o ": " \o urlMeta.text>>),
                      !.tweetMentionCount = @ + 1,
                      !.tweetRetweetCount = @ + urlMeta.retweet_count,
                      !.tweetFavoriteCount = @ + urlMeta.favorite_count,
                      !.tweetIDs = RUnion(@, <<urlMeta.id_str>>)]
              [] urlMeta.kind = "pocket" ->
                   [m0 EXCEPT
                      !.pocketTag = RUnion(@, <<urlMeta.tag>>),
                      !.pocketTimeAdded = RUnion(@, <<timeAddedMS>>),
                      !.pocketID = RUnion(@, <<urlMeta.item_id>>)]
              [] OTHER -> m0
      source == CASE urlMeta.kind = "tweet" -> "twitter"
                  [] urlMeta.kind = "pocket" -> "pocket"
                  [] OTHER -> ""
      sourceDetails ==
         CASE urlMeta.kind = "tweet" -> urlMeta.listOwner \o "/" \o urlMeta.listName
           [] urlMeta.kind = "pocket" -> urlMeta.username
           [] OTHER -> ""
      timestamp ==
         IF m0.articleTimestamp # 0 THEN m0.articleTimestamp
         ELSE IF urlMeta.kind = "tweet" THEN tweetTimeMS ELSE timeAddedMS
      m2 == IF source # ""
            THEN [m1 EXCEPT !.source = RUnion(@, <<source>>),
                            !.sourceDetails = RUnion(@, <<sourceDetails>>),
                            !.timestamp = timestamp]
            ELSE m1
      cats == mergedCategories(m2)
  IN IF tweetAlreadyProcessed(m0, urlMeta) THEN m0 ELSE [m2 EXCEPT !.categories = cats]

(***************************************************************************)
(* The web: what a request for a URL may come back with, and the metadata  *)
(* the extractor finds on the page at a final URL.                         *)
(***************************************************************************)
Outcomes ==
  { [kind |-> k, href |-> NoUrl] :
       k \in {"noResponse", "noContentType", "unsupported", "error", "status"} }
  \cup { [kind |-> "ok", href |-> u] : u \in RawUrls }

getPageTitle(u) == IF u.host = "a.com" THEN <<"a", "foo">> ELSE <<"news">>
getPageExcerpt(u) == <<"some", "bar">>
getPublishedTime(u) == IF u.host = "a.com" THEN Now - 3000 ELSE 0

(***************************************************************************)
(* State                                                                   *)
(***************************************************************************)
VARIABLES
  cache,     \* the Redis keys `${redisNS}${url}`: key -> stored object
  urlsList,  \* the Redis list `${redisNS}urls`
  redisQ,    \* callbacks waiting for a Redis reply, in the order of the commands
  calls,     \* the getUrlDetails calls: position, arguments, reply, result
  netCount,  \* number of HTTP requests issued so far, per requested URL
  mRec,      \* record merger on its own: the record being built
  mPrev,     \* the record before the last mergeUrls
  mMeta,     \* the mention of the last mergeUrls
  mCount,    \* number of mergeUrls applied
  flag,      \* the Redis key `${redisNS}isCurrentlyFetching`
  invs,      \* the fetchLists invocations: position, lists, tasks, outcome
  fnArgs,    \* a pure function on its own: the arguments it is applied to
             \* (rankUrls, getStandardizedSegments, getSegmentPosition,
             \* removeJunkURLParams)
  fnResults  \* <<>>, then <<result>> once the function has returned, then
             \* <<result, next>> once the caller's next step is applied to
             \* the result

cacheVars == <<cache, urlsList, redisQ, calls, netCount>>
mergeVars == <<mRec, mPrev, mMeta, mCount>>
runVars == <<flag, invs>>
fnVars == <<fnArgs, fnResults>>
vars == <<cache, urlsList, redisQ, calls, netCount, mRec, mPrev, mMeta, mCount,
          flag, invs, fnArgs, fnResults>>

Calls == DOMAIN calls

IdleCall ==
  [pc |-> "idle", url |-> NoUrl, urlMeta |-> T1, reply |-> <<>>, result |-> <<>>,
   how |-> "", first |-> NoUrl, linsertReply |-> 0,
   fetched |-> FALSE, requested |-> NoUrl, after |-> {}, owner |-> <<0, 0>>,
   idx |-> <<0, 0>>]

\* client.get / client.set on the store, in the order the commands are sent.
Lookup(store, key) == IF key \in DOMAIN store THEN <<store[key]>> ELSE <<>>

SetKey(store, key, obj) ==
  [k \in DOMAIN store \cup {key} |-> IF k = key THEN obj ELSE store[k]]

\* Stores that earlier runs, earlier versions of the scraper and the user
\* (who marks URLs as removed) may have left behind.
RecordOf(u, urlMeta) ==
  mergeUrls([EmptyObj EXCEPT !.url = u, !.title = getPageTitle(u),
                             !.excerpt = getPageExcerpt(u),
                             !.articleTimestamp = getPublishedTime(u)], urlMeta)

ScrapeErrorObj(reason) == [EmptyObj EXCEPT !.scraperError = reason]
RemovedObj(u) == [RecordOf(u, T1) EXCEPT !.isRemoved = TRUE]
RedirectObj(target) == [EmptyObj EXCEPT !.redirect = target]

EmptyStore == [k \in {} |-> EmptyObj]

InitStores ==
  { EmptyStore,
    SetKey(EmptyStore, UA, RecordOf(UA, P1)),
    SetKey(EmptyStore, UB, RecordOf(UB, P1)),
    SetKey(SetKey(EmptyStore, UA, ScrapeErrorObj("HTTP 404")), UB, RemovedObj(UB)),
    SetKey(SetKey(EmptyStore, UA, RedirectObj(UA)), UB, RedirectObj(UA)) }

\* The known-URLs list that goes with a store: the URLs of its records.
KnownUrls(store) ==
  (IF UA \in DOMAIN store /\ store[UA].url = UA THEN <<UA>> ELSE <<>>)
  \o (IF UB \in DOMAIN store /\ store[UB].url = UB THEN <<UB>> ELSE <<>>)

(***************************************************************************)
(* Source lists, filters and ranking                                       *)
(***************************************************************************)
\* Number of fetchLists invocations that may be started in one behaviour.
MaxInv == 2

\* setIgnoreWords(words)
ignoreWords == <<"spam">>

\* What a caller passes to fetchLists (Pocket lists carry valid
\* credentials; oldList is the previous snapshot).
NoLists == [pocket |-> <<>>, twitter |-> <<>>, oldList |-> <<>>]
BothLists ==
  [pocket |-> << [username |-> "u", tags |-> <<"g">>] >>,
   twitter |-> << [owner |-> "o", name |-> "l"] >>,
   oldList |-> <<>>]
PocketOnly ==
  [pocket |-> << [username |-> "u", tags |-> <<"g">>] >>, twitter |-> <<>>,
   oldList |-> <<>>]
ListConfigs == {NoLists, BothLists}

\* What the list APIs hold: one Pocket item and one tweet, each with the
\* mention that pocketToURL / tweetToURLs build from it.  Both link a.com.
PocketItems == << [resolved_url |-> UAj, pocketObj |-> P1] >>
TwitterTweets == << [urls |-> <<UA>>, tweetObj |-> T1] >>

\* How a list request ends.  Pocket: "empty" is an HTTP status that is not
\* ok, "error" the 8 s timeout.  Twitter: "empty" is a reply without
\* tweets, "error" an API error.
ListOutcomes == {"ok", "empty", "error"}

\* R.flatten followed by R.reject(R.isNil): a callback result is <<>>
\* (undefined) or <<value>>.
RECURSIVE Concat(_)
Concat(ss) == IF ss = <<>> THEN <<>> ELSE ss[1] \o Concat(Tail(ss))

Maybes(list) == [k \in 1..Len(list) |-> <<list[k]>>]

\* R.reject by a list of verdicts: element k is kept when keep[k] holds.
RECURSIVE KeepWhere(_, _)
KeepWhere(s, keep) ==
  IF s = <<>> THEN <<>>
  ELSE (IF keep[1] THEN <<s[1]>> ELSE <<>>) \o KeepWhere(Tail(s), Tail(keep))

\* filterStaleUrls(urlObjects, prop, expiry) with a cutoff expiry;
\* timestamps[k] is what prop yields for urlObjects[k].
filterStaleUrls(urlObjects, timestamps, expiry) ==
  KeepWhere(urlObjects,
            [k \in 1..Len(urlObjects) |-> timestamps[k] > Now - expiry])

\* The mutant: every record older than a week is stale, whatever its rank.
lowRankExpiryAnyRank(urlObj, timeMS) ==
  LET olderThanAWeek == Now - timeMS > msInAWeek
  IN ~olderThanAWeek

\* The expiry function fetchLists passes after ranking: a record is stale
\* when it ranks below 6 and is older than a week.
lowRankExpiry(urlObj, timeMS) ==
  LET olderThanAWeek == Now - timeMS > msInAWeek
      isStale == urlObj.rank < 6 /\ olderThanAWeek
  IN ~isStale

\* filterStaleUrls(urlObjects, prop, expiry) with that expiry function.
filterStaleUrlsWith(urlObjects, timestamps) ==
  KeepWhere(urlObjects,
            [k \in 1..Len(urlObjects) |-> lowRankExpiry(urlObjects[k], timestamps[k])])

\* filterNonArticles on URL strings and on URL objects.
filterNonArticles(urls) == SelectSeq(urls, LAMBDA url : url.host # "twitter.com")
filterNonArticleObjs(urls) == SelectSeq(urls, LAMBDA url : url.url.host # "twitter.com")

HasIgnoreWord(text, words) == \E i \in 1..Len(words) : Contains(text, words[i])

\* filterUrlsWithIgnoreWords on URL strings and on URL objects.
filterUrlsWithIgnoreWords(urls, words) ==
  SelectSeq(urls, LAMBDA url : ~HasIgnoreWord(UrlWords(url), words))
filterUrlObjsWithIgnoreWords(urls, words) ==
  SelectSeq(urls, LAMBDA url :
     ~HasIgnoreWord(UrlWords(url.url) \o url.title \o url.excerpt, words))

\* filterTweets: tweets without URLs or with an ignored word are dropped.
filterTweets(tweets, words) ==
  SelectSeq(tweets, LAMBDA tweet :
     /\ Len(tweet.urls) # 0
     /\ ~HasIgnoreWord(<<"@" \o tweet.tweetObj.screen_name, tweet.tweetObj.text>>, words))

\* pocketToURLs up to parallelLimit: one task per item that is not stale,
\* each task (pocketToURL) making one getUrlDetails call.
PocketToResolve(items) ==
  LET pocketURLs ==
        filterStaleUrls(items,
                        [k \in 1..Len(items) |-> items[k].pocketObj.time_added * 1000],
                        msInAMonth)
  IN [k \in 1..Len(pocketURLs) |->
        << [url |-> pocketURLs[k].resolved_url, urlMeta |-> pocketURLs[k].pocketObj] >>]

\* tweetsToURLs / tweetToURLs up to parallelLimit: one task per tweet, each
\* task (tweetToURLs) with one getUrlDetails call per URL of the tweet that
\* passes the filters.
TweetsToResolve(tweets) ==
  [g \in 1..Len(tweets) |->
     LET tweetURLs == filterUrlsWithIgnoreWords(filterNonArticles(tweets[g].urls),
                                                ignoreWords)
     IN [k \in 1..Len(tweetURLs) |->
           [url |-> tweetURLs[k], urlMeta |-> tweets[g].tweetObj]]]

\* The parallelLimit callback of pocketToURLs: the results of the
\* pocketToURL calls are handed on as they are.
pocketToURLsDone(urlObjs) == urlObjs

\* The parallelLimit callback of tweetsToURLs.
tweetsToURLsDone(reply) ==
  LET flattened == Concat(reply)
      flattenedUrlObjects ==
        filterStaleUrls(flattened,
                        [k \in 1..Len(flattened) |-> flattened[k].articleTimestamp],
                        msInAMonth)
  IN filterUrlObjsWithIgnoreWords(filterNonArticleObjs(flattenedUrlObjects), ignoreWords)

totalSegments == 10

RECURSIVE InsertNum(_, _)
InsertNum(x, s) ==
  IF s = <<>> THEN <<x>>
  ELSE IF x < s[1] THEN <<x>> \o s ELSE <<s[1]>> \o InsertNum(x, Tail(s))

\* R.sort(numDiff, arr)
RECURSIVE SortNum(_)
SortNum(s) ==
  IF s = <<>> THEN <<>>
  ELSE InsertNum(s[Len(s)], SortNum(SubSeq(s, 1, Len(s) - 1)))

\* Lengths below 30 for which the index of getStandardizedSegments, a
\* double that starts at length / 10 - 1 and grows by length / 10, ends
\* just below length - 1 instead of on it (IEEE 754 rounding).
IndexRoundsDown == {11, 12, 16, 17, 22, 24, 27, 29}

\* Math.floor(index) in the k-th round of the loop, counted from 1.
IndexInt(len, k) ==
  IF k = totalSegments /\ len \in IndexRoundsDown THEN len - 2
  ELSE (k * len - totalSegments) \div totalSegments

getStandardizedSegmentsUnsorted(arr) ==
  LET sorted == arr
      arrSorted == IF Len(sorted) < totalSegments
                   THEN [k \in 1..(totalSegments - Len(sorted)) |-> 0] \o sorted
                   ELSE sorted
      isSegmentAnInt == Len(arrSorted) % totalSegments = 0
      arrSegmentSize == Len(arrSorted) \div totalSegments
  IN IF isSegmentAnInt
     THEN [k \in 1..(Len(arrSorted) \div arrSegmentSize) |->
             10 * arrSorted[k * arrSegmentSize]]
     ELSE [k \in 1..totalSegments |->
             11 * arrSorted[IndexInt(Len(arrSorted), k) + 1]]

\* getStandardizedSegments(arr), for fewer than 30 values.  The segment
\* values are kept in tenths: 10 * v for v, 11 * v for v + v / 10.
getStandardizedSegments(arr) ==
  LET sorted == SortNum(arr)
      arrSorted == IF Len(sorted) < totalSegments
                   THEN [k \in 1..(totalSegments - Len(sorted)) |-> 0] \o sorted
                   ELSE sorted
      isSegmentAnInt == Len(arrSorted) % totalSegments = 0
      arrSegmentSize == Len(arrSorted) \div totalSegments
  IN IF isSegmentAnInt
     THEN [k \in 1..(Len(arrSorted) \div arrSegmentSize) |->
             10 * arrSorted[k * arrSegmentSize]]
     ELSE [k \in 1..totalSegments |->
             11 * arrSorted[IndexInt(Len(arrSorted), k) + 1]]

\* R.sort(R.gt, segments): the comparator yields true or false, never a
\* negative number, and what Array.prototype.sort makes of that is up to
\* the engine: an insertion sort that shifts on a positive result sorts
\* (V8 before 7.0, up to 10 elements), a merge sort that looks for a
\* negative result leaves the array as it is (V8 since 7.0).
SortGtOutcomes(segments) == {SortNum(segments), segments}

\* getSegmentPosition(rank, segments) after the sort; the segments are in
\* tenths.  rankUrls passes the segments of getStandardizedSegments, which
\* are ascending, so that every outcome of the sort is the array itself.
getSegmentPosition(rank, segments) ==
  LET within == {a \in 1..Len(segments) : ~(10 * rank > segments[a])}
  IN IF within = {} THEN Len(segments) - 1
     ELSE (CHOOSE a \in within : \A b \in within : a <= b) - 1

\* getObjSegments / getPocketSegments on the plucked values.
getObjSegments(arr) == getStandardizedSegments(arr)
getPocketSegments(arr) == getStandardizedSegments(arr)

\* rankingArr.join('') and parseFloat for positions below 100: the decimal
\* digits of the positions, one after the other.
DecimalShift(n) == IF n < 10 THEN 10 ELSE 100

JoinDigits(rankingArr) ==
  (rankingArr[1] * DecimalShift(rankingArr[2]) + rankingArr[2]) * DecimalShift(rankingArr[3])
  + rankingArr[3]

getURLRankFavoritesFirst(urlObj, faveSegments, retweetSegments, pocketSegments) ==
  LET faveRanking == getSegmentPosition(urlObj.tweetFavoriteCount, faveSegments)
      retweetRanking == getSegmentPosition(urlObj.tweetRetweetCount, retweetSegments)
      pocketRanking == getSegmentPosition(Len(urlObj.pocketTimeAdded), pocketSegments)
      rankingArr == <<faveRanking, retweetRanking, pocketRanking>>
  IN JoinDigits(rankingArr) * 1000

\* getURLRank: the three positions joined as digits, times 1000.
getURLRank(urlObj, faveSegments, retweetSegments, pocketSegments) ==
  LET faveRanking == getSegmentPosition(urlObj.tweetFavoriteCount, faveSegments)
      retweetRanking == getSegmentPosition(urlObj.tweetRetweetCount, retweetSegments)
      pocketRanking == getSegmentPosition(Len(urlObj.pocketTimeAdded), pocketSegments)
      rankingArr == <<pocketRanking, retweetRanking, faveRanking>>
  IN JoinDigits(rankingArr) * 1000

RankedBeforeByRankRawOnly(a, b) == a.rankRaw > b.rankRaw

\* The sortWith order of normalizeRanks: a comes strictly before b.
RankedBefore(a, b) ==
  \/ a.rankRaw > b.rankRaw
  \/ /\ a.rankRaw = b.rankRaw
     /\ \/ a.tweetRetweetCount > b.tweetRetweetCount
        \/ /\ a.tweetRetweetCount = b.tweetRetweetCount
           /\ \/ a.tweetFavoriteCount > b.tweetFavoriteCount
              \/ /\ a.tweetFavoriteCount = b.tweetFavoriteCount
                 /\ a.timestamp > b.timestamp

RECURSIVE InsertRanked(_, _)
InsertRanked(x, s) ==
  IF s = <<>> THEN <<x>>
  ELSE IF RankedBefore(x, s[1]) THEN <<x>> \o s
       ELSE <<s[1]>> \o InsertRanked(x, Tail(s))

RECURSIVE SortRanked(_)
SortRanked(s) ==
  IF s = <<>> THEN <<>>
  ELSE InsertRanked(s[Len(s)], SortRanked(SubSeq(s, 1, Len(s) - 1)))

normalizeRanksZeroBased(urlObjs) ==
  Only({ Only({ [k \in 1..Len(urlsCopy) |->
                   [urlsCopy[k] EXCEPT
                      !.rank = getSegmentPosition(urlsCopy[k].rankRaw, segments)]] :
                segments \in {getStandardizedSegments(
                                Uniq([k \in 1..Len(urlsCopy) |-> urlsCopy[k].rankRaw]))} }) :
         urlsCopy \in {SortRanked(urlObjs)} })

\* normalizeRanks(urlObjs)
normalizeRanks(urlObjs) ==
  Only({ Only({ [k \in 1..Len(urlsCopy) |->
                   [urlsCopy[k] EXCEPT
                      !.rank = getSegmentPosition(urlsCopy[k].rankRaw, segments) + 1]] :
                segments \in {getStandardizedSegments(
                                Uniq([k \in 1..Len(urlsCopy) |-> urlsCopy[k].rankRaw]))} }) :
         urlsCopy \in {SortRanked(urlObjs)} })

\* rankUrls(urlObjects)
rankUrls(urlObjects) ==
  IF urlObjects = <<>> THEN <<>>
  ELSE Only({ normalizeRanks(urlObjs) :
              urlObjs \in
                { [k \in 1..Len(withUrl) |->
                     [withUrl[k] EXCEPT !.rankRaw =
                        getURLRank(withUrl[k], faveSegments, retweetSegments, pocketSegments)]] :
                  faveSegments \in
                    {getObjSegments([k \in 1..Len(urlObjects) |->
                                       urlObjects[k].tweetFavoriteCount])},
                  retweetSegments \in
                    {getObjSegments([k \in 1..Len(urlObjects) |->
                                       urlObjects[k].tweetRetweetCount])},
                  pocketSegments \in
                    {getPocketSegments([k \in 1..Len(urlObjects) |->
                                          Len(urlObjects[k].pocketTimeAdded)])},
                  withUrl \in {SelectSeq(urlObjects, LAMBDA o : o.url # NoUrl)} } })

\* R.unionWith(R.eqBy(R.prop('url')), allUrls, oldList): the first record
\* of every url is kept.
RECURSIVE UniqByUrl(_)
UniqByUrl(s) ==
  IF s = <<>> THEN <<>>
  ELSE LET init == SubSeq(s, 1, Len(s) - 1)
           last == s[Len(s)]
       IN IF \E k \in 1..Len(init) : init[k].url = last.url THEN UniqByUrl(init)
          ELSE Append(UniqByUrl(init), last)

unionWithUrlSecondFirst(list1, list2) == UniqByUrl(list2 \o list1)

unionWithUrl(list1, list2) == UniqByUrl(list1 \o list2)

\* getTime of fetchLists: R.path('pocketTimeAdded', 'length', obj) takes the
\* string 'length' as the object and yields undefined, so the length read is
\* always 0.
getTime(obj) ==
  LET pocketTimeAdded == 0
  IN IF pocketTimeAdded > 0 THEN obj.pocketTimeAdded[1] ELSE obj.articleTimestamp

\* The parallelLimit callback of fetchLists up to ranking: urls holds, per
\* list fetch, <<>> (no result) or <<list>>.
fetchListsFresh(urls, oldList) ==
  LET lists == Concat(urls)
      allUrls == Concat(Concat(lists))
  IN Only({ filterStaleUrls(deduped,
                            [k \in 1..Len(deduped) |-> getTime(deduped[k])],
                            msInAMonth) :
            deduped \in {unionWithUrl(allUrls, oldList)} })

\* fetchLists after ranking: old low-ranking records are removed.
fetchListsPostRank(ranked) ==
  filterStaleUrlsWith(ranked, [k \in 1..Len(ranked) |-> getTime(ranked[k])])

\* The parallelLimit callback of fetchLists.
fetchListsDone(urls, oldList) ==
  Only({ fetchListsPostRank(ranked) :
         ranked \in { rankUrls(allUrls) : allUrls \in {fetchListsFresh(urls, oldList)} } })

\* The list fetches of fetchLists: one per Pocket list and tag, then one
\* per Twitter list.
RECURSIVE PocketFns(_)
PocketFns(pocket) ==
  IF pocket = <<>> THEN <<>>
  ELSE [k \in 1..Len(pocket[1].tags) |->
          [kind |-> "pocket", pc |-> "wait", iterations |-> 0, result |-> <<>>,
           groups |-> <<>>]]
       \o PocketFns(Tail(pocket))

parallelFns(lists) ==
  PocketFns(lists.pocket)
  \o [k \in 1..Len(lists.twitter) |->
        [kind |-> "twitter", pc |-> "wait", iterations |-> 0, result |-> <<>>,
         groups |-> <<>>]]

\* async.parallelLimit(parallelFns, limit, ...): the first tasks start.
StartTasks(tasks, limit) ==
  [k \in 1..Len(tasks) |-> IF k <= limit THEN [tasks[k] EXCEPT !.pc = "api"] ELSE tasks[k]]

IdleInv ==
  [pc |-> "idle", lists |-> NoLists, reply |-> "", overlap |-> FALSE, tasks |-> <<>>,
   err |-> "", out |-> <<>>]

RunIdle ==
  /\ flag = "0"
  /\ invs = [i \in 1..MaxInv |-> IdleInv]

FnIdle ==
  /\ fnArgs = <<>>
  /\ fnResults = <<>>

MergeIdle ==
  /\ mRec = EmptyObj
  /\ mPrev = EmptyObj
  /\ mMeta = T1
  /\ mCount = 0

Init ==
  /\ cache \in InitStores
  /\ urlsList = KnownUrls(cache)
  /\ redisQ = <<>>
  /\ calls = [c \in 1..MaxCalls |-> IdleCall]
  /\ netCount = [k \in Keys |-> 0]
  /\ MergeIdle
  /\ FnIdle
  /\ RunIdle

(***************************************************************************)
(* getUrlDetails                                                           *)
(***************************************************************************)
\* getUrlDetails(url, urlMeta, done) up to client.get: the URL is
\* canonicalized and the cache is asked for it.  The reply of a command is
\* fixed when it is sent: one connection, commands served in order.
\* A caller (tweetToURLs, pocketToURL) resolves a URL for a mention.
Started(url, urlMeta, owner, cs, store) ==
  LET urlCopy == removeJunkURLParams(url)
  IN [IdleCall EXCEPT
        !.pc = "get", !.url = urlCopy, !.first = urlCopy, !.urlMeta = urlMeta,
        !.reply = Lookup(store, urlCopy),
        !.after = {d \in DOMAIN cs : cs[d].how = "fetched"}, !.owner = owner]

StartResolve(c, url, urlMeta) ==
  /\ calls[c].pc = "idle"
  /\ \A d \in Calls : d < c => calls[d].pc # "idle"
  /\ calls' = [calls EXCEPT ![c] = Started(url, urlMeta, <<0, 0>>, calls, cache)]
  /\ redisQ' = Append(redisQ, <<"call", c>>)
  /\ UNCHANGED <<cache, urlsList, netCount>>
  /\ UNCHANGED mergeVars
  /\ UNCHANGED fnVars
  /\ UNCHANGED runVars

GetReplyBranchNoErrorCheck(reply, urlCopy) ==
  IF reply = <<>> THEN "miss"
  ELSE IF reply[1].isRemoved THEN "removed"
  ELSE IF reply[1].redirect # NoUrl /\ reply[1].redirect # urlCopy THEN "redirect"
  ELSE "merge"

\* What the client.get callback of getUrlDetails does with the reply.
GetReplyBranch(reply, urlCopy) ==
  IF reply = <<>> THEN "miss"
  ELSE IF reply[1].scraperError # "" THEN "scraperError"
  ELSE IF reply[1].isRemoved THEN "removed"
  ELSE IF reply[1].redirect # NoUrl /\ reply[1].redirect # urlCopy THEN "redirect"
  ELSE "merge"

(***************************************************************************)
(* Completion of a list fetch                                              *)
(***************************************************************************)
TaskDoneErrorSwallowed(i, j, err, list) ==
  \E t1 \in {[invs[i].tasks EXCEPT ![j].pc = IF err = "" THEN "done" ELSE "failed",
                                  ![j].result = IF err = "" THEN <<list>> ELSE <<>>]} :
  LET inv == invs[i]
      waiting == {k \in 1..Len(t1) : t1[k].pc = "wait"}
      t2 == IF waiting = {} THEN t1
            ELSE [t1 EXCEPT ![CHOOSE k \in waiting : \A m \in waiting : k <= m].pc = "api"]
  IN IF inv.pc # "running"
     THEN /\ invs' = [invs EXCEPT ![i].tasks = t1]
          /\ UNCHANGED flag
     ELSE IF \A k \in 1..Len(t1) : t1[k].pc = "done"
     THEN /\ invs' = [invs EXCEPT
                        ![i].tasks = t1, ![i].pc = "done",
                        ![i].out = fetchListsDone([k \in 1..Len(t1) |-> t1[k].result],
                                                  inv.lists.oldList)]
          /\ flag' = "0"
     ELSE /\ invs' = [invs EXCEPT ![i].tasks = t2]
          /\ UNCHANGED flag

\* The callback that async.parallelLimit hands to list fetch j of
\* invocation i, and, when it is the last one or carries an error, the
\* final callback of fetchLists: combine, rank, reset the flag, done.
TaskDone(i, j, err, list) ==
  \E t1 \in {[invs[i].tasks EXCEPT ![j].pc = IF err = "" THEN "done" ELSE "failed",
                                  ![j].result = IF err = "" THEN <<list>> ELSE <<>>]} :
  LET inv == invs[i]
      waiting == {k \in 1..Len(t1) : t1[k].pc = "wait"}
      t2 == IF waiting = {} THEN t1
            ELSE [t1 EXCEPT ![CHOOSE k \in waiting : \A m \in waiting : k <= m].pc = "api"]
  IN IF inv.pc # "running"
     THEN /\ invs' = [invs EXCEPT ![i].tasks = t1]
          /\ UNCHANGED flag
     ELSE IF err # "" \/ \A k \in 1..Len(t1) : t1[k].pc = "done"
     THEN /\ invs' = [invs EXCEPT
                        ![i].tasks = t1, ![i].pc = "done",
                        ![i].out = fetchListsDone([k \in 1..Len(t1) |-> t1[k].result],
                                                  inv.lists.oldList)]
          /\ flag' = "0"
     ELSE /\ invs' = [invs EXCEPT ![i].tasks = t2]
          /\ UNCHANGED flag

\* The limit of the async.parallelLimit calls of tweetsToURLs, tweetToURLs
\* and pocketToURLs.
resolveLimit == 5

\* The getUrlDetails calls of a batch: k-th URL of the g-th task.
ItemsOf(groups) ==
  Concat([g \in 1..Len(groups) |->
            [k \in 1..Len(groups[g]) |->
               [url |-> groups[g][k].url, urlMeta |-> groups[g][k].urlMeta,
                idx |-> <<g, k>>]]])

HasCall(cs, owner, idx) ==
  \E c \in DOMAIN cs : cs[c].pc # "idle" /\ cs[c].owner = owner /\ cs[c].idx = idx

ItemDone(cs, owner, idx) ==
  \E c \in DOMAIN cs : cs[c].pc = "done" /\ cs[c].owner = owner /\ cs[c].idx = idx

\* async.parallelLimit over the tasks of a batch: how many of the first g
\* tasks have called back.  A task is started once fewer than resolveLimit
\* of the tasks before it are unfinished, and calls back when each of its
\* getUrlDetails calls has called back (at once if it has none).
RECURSIVE NDone(_, _, _, _)
NDone(cs, owner, groups, g) ==
  IF g = 0 THEN 0
  ELSE LET before == NDone(cs, owner, groups, g - 1)
       IN IF /\ g <= resolveLimit + before
             /\ \A k \in 1..Len(groups[g]) : ItemDone(cs, owner, <<g, k>>)
          THEN before + 1
          ELSE before

TaskStarted(cs, owner, groups, g) ==
  g <= resolveLimit + NDone(cs, owner, groups, g - 1)

\* async.parallelLimit inside a started task: its k-th call is made once
\* fewer than resolveLimit of the calls before it are in flight.
ItemDue(cs, owner, groups, idx) ==
  /\ TaskStarted(cs, owner, groups, idx[1])
  /\ idx[2] <= resolveLimit
                + Cardinality({m \in 1..(idx[2] - 1) : ItemDone(cs, owner, <<idx[1], m>>)})

\* The calls that the parallelLimits make next, in order.
DueItems(cs, owner, groups) ==
  LET items == ItemsOf(groups)
  IN KeepWhere(items, [n \in 1..Len(items) |->
                         /\ ~HasCall(cs, owner, items[n].idx)
                         /\ ItemDue(cs, owner, groups, items[n].idx)])

\* getUrlDetails is called for every item in turn.
RECURSIVE StartAll(_, _, _, _)
StartAll(st, items, owner, store) ==
  IF items = <<>> THEN st
  ELSE LET idle == {c \in DOMAIN st.calls : st.calls[c].pc = "idle"}
           c == CHOOSE x \in idle : \A y \in idle : x <= y
       IN StartAll([calls |-> [st.calls EXCEPT
                                 ![c] = [Started(items[1].url, items[1].urlMeta, owner,
                                                 st.calls, store)
                                           EXCEPT !.idx = items[1].idx]],
                    q |-> Append(st.q, <<"call", c>>)],
                   Tail(items), owner, store)

\* The results of a batch, in the order of its tasks and calls.
ResultsOf(cs, owner, groups) ==
  LET items == ItemsOf(groups)
  IN [n \in 1..Len(items) |->
        cs[CHOOSE c \in DOMAIN cs : cs[c].owner = owner /\ cs[c].idx = items[n].idx].result]

\* The done callback of a getUrlDetails call made for a list fetch: the
\* parallelLimits of pocketToURLs / tweetsToURLs / tweetToURLs make the
\* next calls and, after the last call of the batch, hand the list on.
\* q and store are the command queue and the cache as the handler leaves
\* them.
Collect(calls2, c, q, store) ==
  LET owner == calls2[c].owner
      i == owner[1]
      j == owner[2]
  IN IF i = 0
     THEN /\ calls' = calls2
          /\ redisQ' = q
          /\ UNCHANGED runVars
     ELSE \E st \in {StartAll([calls |-> calls2, q |-> q],
                               DueItems(calls2, owner, invs[i].tasks[j].groups),
                               owner, store)} :
          LET groups == invs[i].tasks[j].groups
              items == ItemsOf(groups)
              reply == ResultsOf(st.calls, owner, groups)
          IN /\ calls' = st.calls
             /\ redisQ' = st.q
             /\ IF \E n \in 1..Len(items) : ~ItemDone(st.calls, owner, items[n].idx)
                THEN UNCHANGED runVars
                ELSE TaskDone(i, j, "",
                              IF invs[i].tasks[j].kind = "twitter"
                              THEN Maybes(tweetsToURLsDone(reply))
                              ELSE pocketToURLsDone(reply))

\* done(err, urlDetailsObj) of a getUrlDetails call.
Done(c, result, how, q, store) ==
  Collect([calls EXCEPT ![c].pc = "done", ![c].result = result, ![c].how = how],
          c, q, store)

\* The client.get callback.
GetReply(c) ==
  /\ redisQ # <<>> /\ Head(redisQ) = <<"call", c>>
  /\ calls[c].pc = "get"
  /\ LET urlCopy == calls[c].url
         reply == calls[c].reply
         branch == GetReplyBranch(reply, urlCopy)
     IN CASE branch \in {"scraperError", "removed"} ->
               /\ Done(c, <<>>, branch, Tail(redisQ), cache)
               /\ UNCHANGED <<cache, urlsList, netCount>>
          [] branch = "redirect" ->
               \* getUrlDetails(parsedReply.redirect, urlMeta, done)
               LET target == removeJunkURLParams(reply[1].redirect)
               IN /\ calls' = [calls EXCEPT ![c].url = target,
                                            ![c].reply = Lookup(cache, target)]
                  /\ redisQ' = Append(Tail(redisQ), <<"call", c>>)
                  /\ UNCHANGED <<cache, urlsList, netCount>>
                  /\ UNCHANGED runVars
          [] branch = "merge" ->
               \E urlDetailsObj \in {mergeUrls(reply[1], calls[c].urlMeta)} :
                  /\ cache' = SetKey(cache, urlCopy, urlDetailsObj)
                  /\ Done(c, <<urlDetailsObj>>, "merged", Tail(redisQ), cache')
                  /\ UNCHANGED <<urlsList, netCount>>
          [] branch = "miss" ->
               \* fetchUrlDetails(urlCopy, urlMeta, done) up to request().
               LET requested == removeJunkURLParams(urlCopy)
               IN /\ calls' = [calls EXCEPT ![c].pc = "request", ![c].fetched = TRUE,
                                            ![c].requested = requested]
                  /\ netCount' = [netCount EXCEPT ![requested] = @ + 1]
                  /\ redisQ' = Tail(redisQ)
                  /\ UNCHANGED <<cache, urlsList>>
                  /\ UNCHANGED runVars
  /\ UNCHANGED mergeVars
  /\ UNCHANGED fnVars

(***************************************************************************)
(* fetchUrlDetails: the request callback                                   *)
(***************************************************************************)
placeholderVal == NoUrl

\* Redis LINSERT key BEFORE pivot value: the reply and the list afterwards.
LinsertReplyOf(list, pivot) ==
  IF list = <<>> THEN 0
  ELSE IF ~Contains(list, pivot) THEN -1
  ELSE Len(list) + 1

LinsertBefore(list, pivot, val) ==
  IF ~Contains(list, pivot) THEN list
  ELSE LET i == CHOOSE j \in 1..Len(list) :
                   list[j] = pivot /\ \A k \in 1..(j - 1) : list[k] # pivot
       IN SubSeq(list, 1, i - 1) \o <<val>> \o SubSeq(list, i, Len(list))

\* Redis LREM key 0 value: every occurrence is removed.
RECURSIVE Lrem(_, _)
Lrem(list, val) ==
  IF list = <<>> THEN <<>>
  ELSE IF list[1] = val THEN Lrem(Tail(list), val)
       ELSE <<list[1]>> \o Lrem(Tail(list), val)

\* The mutant of the two writes: the record first, the redirect pointer
\* last.
WritesOnSuccessRedirectLast(store, url, urlCopy, wasRedirected, urlDetails) ==
  LET s1 == SetKey(store, urlCopy, urlDetails)
  IN IF wasRedirected THEN SetKey(s1, url, RedirectObj(urlCopy)) ELSE s1

\* The two cache writes of a successful fetch: the redirect pointer under
\* the URL that was asked for, then the record under the final URL.
WritesOnSuccess(store, url, urlCopy, wasRedirected, urlDetails) ==
  LET s1 == IF wasRedirected THEN SetKey(store, url, RedirectObj(urlCopy)) ELSE store
  IN SetKey(s1, urlCopy, urlDetails)

\* The callback of request(urlCopy, ...) in fetchUrlDetails(url, args, done).
Response(c, outcome) ==
  /\ calls[c].pc = "request"
  /\ LET url == calls[c].url
         urlCopy == removeJunkURLParams(url)
     IN CASE outcome.kind = "noResponse" ->
               /\ cache' = SetKey(cache, urlCopy, ScrapeErrorObj("No response"))
               /\ Done(c, <<EmptyObj>>, "noResponse", redisQ, cache')
               /\ UNCHANGED <<urlsList, netCount>>
          [] outcome.kind = "noContentType" ->
               \* scraperError: undefined is dropped by JSON.stringify.
               /\ cache' = SetKey(cache, urlCopy, EmptyObj)
               /\ Done(c, <<>>, "unsupported", redisQ, cache')
               /\ UNCHANGED <<urlsList, netCount>>
          [] outcome.kind = "unsupported" ->
               /\ cache' = SetKey(cache, urlCopy, ScrapeErrorObj("application/pdf"))
               /\ Done(c, <<>>, "unsupported", redisQ, cache')
               /\ UNCHANGED <<urlsList, netCount>>
          [] outcome.kind = "error" ->
               /\ Done(c, <<EmptyObj>>, "error", redisQ, cache)
               /\ UNCHANGED <<cache, urlsList, netCount>>
          [] outcome.kind = "status" ->
               /\ cache' = SetKey(cache, urlCopy, ScrapeErrorObj("HTTP 404"))
               /\ Done(c, <<EmptyObj>>, "status", redisQ, cache')
               /\ UNCHANGED <<urlsList, netCount>>
          [] outcome.kind = "ok" ->
               LET newUrl == outcome.href
                   wasRedirected == urlCopy # newUrl
                   finalUrl == removeJunkURLParams(newUrl)
                   scraped == [EmptyObj EXCEPT !.url = finalUrl,
                                               !.title = getPageTitle(finalUrl),
                                               !.excerpt = getPageExcerpt(finalUrl),
                                               !.articleTimestamp = getPublishedTime(finalUrl)]
                   urlDetails == mergeUrls(scraped, calls[c].urlMeta)
               IN /\ cache' = WritesOnSuccess(cache, url, finalUrl, wasRedirected, urlDetails)
                  \* uniqueLPUSH up to client.linsert.
                  /\ urlsList' = LinsertBefore(urlsList, finalUrl, placeholderVal)
                  /\ calls' = [calls EXCEPT ![c].pc = "linsert", ![c].url = finalUrl,
                                            ![c].how = "fetched",
                                            ![c].result = <<urlDetails>>,
                                            ![c].linsertReply = LinsertReplyOf(urlsList, finalUrl)]
                  /\ redisQ' = Append(redisQ, <<"call", c>>)
                  /\ UNCHANGED netCount
                  /\ UNCHANGED runVars
  /\ UNCHANGED mergeVars
  /\ UNCHANGED fnVars

\* uniqueLPUSH: the client.linsert callback pushes the value if the pivot
\* was not found, then removes the placeholder.
LinsertReply(c) ==
  /\ redisQ # <<>> /\ Head(redisQ) = <<"call", c>>
  /\ calls[c].pc = "linsert"
  /\ LET keyNotFound == calls[c].linsertReply = -1
         listEmpty == calls[c].linsertReply = 0
         pushed == IF keyNotFound \/ listEmpty THEN <<calls[c].url>> \o urlsList
                   ELSE urlsList
     IN urlsList' = Lrem(pushed, placeholderVal)
  /\ calls' = [calls EXCEPT ![c].pc = "lrem"]
  /\ redisQ' = Append(Tail(redisQ), <<"call", c>>)
  /\ UNCHANGED <<cache, netCount>>
  /\ UNCHANGED mergeVars
  /\ UNCHANGED fnVars
  /\ UNCHANGED runVars

\* uniqueLPUSH: the client.lrem callback calls done(null, urlDetails).
LremReply(c) ==
  /\ redisQ # <<>> /\ Head(redisQ) = <<"call", c>>
  /\ calls[c].pc = "lrem"
  /\ Done(c, calls[c].result, "fetched", Tail(redisQ), cache)
  /\ UNCHANGED <<cache, urlsList, netCount>>
  /\ UNCHANGED mergeVars
  /\ UNCHANGED fnVars

(***************************************************************************)
(* fetchLists                                                              *)
(***************************************************************************)
\* fetchLists(lists, done) up to client.get of the run-in-progress flag.
FetchLists(i, lists) ==
  /\ invs[i].pc = "idle"
  /\ \A k \in DOMAIN invs : k < i => invs[k].pc # "idle"
  /\ invs' = [invs EXCEPT
                ![i].pc = "get", ![i].lists = lists, ![i].reply = flag,
                ![i].overlap = \E k \in DOMAIN invs : invs[k].pc \in {"get", "set", "running"}]
  /\ redisQ' = Append(redisQ, <<"inv", i>>)
  /\ UNCHANGED <<flag, cache, urlsList, calls, netCount>>
  /\ UNCHANGED mergeVars
  /\ UNCHANGED fnVars

\* The client.get callback: reject, or send client.set(flag, Date.now()).
FlagGetReply(i) ==
  /\ redisQ # <<>> /\ Head(redisQ) = <<"inv", i>>
  /\ invs[i].pc = "get"
  /\ IF invs[i].reply # "0"
     THEN /\ invs' = [invs EXCEPT ![i].pc = "rejected",
                                  ![i].err = "list fetching already active"]
          /\ redisQ' = Tail(redisQ)
          /\ UNCHANGED flag
     ELSE /\ invs' = [invs EXCEPT ![i].pc = "set"]
          /\ flag' = "ts"
          /\ redisQ' = Append(Tail(redisQ), <<"inv", i>>)
  /\ UNCHANGED <<cache, urlsList, calls, netCount>>
  /\ UNCHANGED mergeVars
  /\ UNCHANGED fnVars

\* The client.set callback: the list fetches start, two at a time.
FlagSetReply(i) ==
  /\ redisQ # <<>> /\ Head(redisQ) = <<"inv", i>>
  /\ invs[i].pc = "set"
  /\ LET fns == parallelFns(invs[i].lists)
     IN IF Len(fns) = 0
        THEN /\ flag' = "0"
             /\ invs' = [invs EXCEPT ![i].pc = "done", ![i].err = "no lists to fetch"]
        ELSE /\ invs' = [invs EXCEPT ![i].pc = "running", ![i].tasks = StartTasks(fns, 2)]
             /\ UNCHANGED flag
  /\ redisQ' = Tail(redisQ)
  /\ UNCHANGED <<cache, urlsList, calls, netCount>>
  /\ UNCHANGED mergeVars
  /\ UNCHANGED fnVars

\* _asyncGetTwitterList asks for the next page until iterations exceeds
\* this number.
pageLimit == 4

\* The reply of the Pocket API (fetchPocketList, pocketToURLs) or of the
\* Twitter API for one page (_asyncGetTwitterList, fetchTwitterList,
\* tweetsToURLs) for list fetch j of invocation i; tweets is what the
\* Twitter API returns.  A page before the last one only leads to the
\* request for the next page: the tweets handed on are those of the last.
ListResponse(i, j, outcome, tweets) ==
  /\ j \in 1..Len(invs[i].tasks)
  /\ invs[i].tasks[j].pc = "api"
  /\ \E groups \in {IF invs[i].tasks[j].kind = "pocket"
                      THEN PocketToResolve(PocketItems)
                      ELSE TweetsToResolve(filterTweets(tweets, ignoreWords))} :
     \E st \in {StartAll([calls |-> calls, q |-> redisQ],
                          DueItems(calls, <<i, j>>, groups), <<i, j>>, cache)} :
     LET kind == invs[i].tasks[j].kind
         iterations == invs[i].tasks[j].iterations + 1
         lastPage == kind = "pocket" \/ iterations > pageLimit
     IN CASE outcome = "ok" /\ ~lastPage ->
               /\ invs' = [invs EXCEPT ![i].tasks[j].iterations = iterations]
               /\ UNCHANGED <<flag, calls, redisQ>>
          [] outcome = "empty" /\ ~lastPage ->
               /\ TaskDone(i, j, "Twitter API reply is 0 length", <<>>)
               /\ UNCHANGED <<calls, redisQ>>
          [] outcome = "ok" /\ lastPage /\ ItemsOf(groups) # <<>> ->
               /\ calls' = st.calls
               /\ redisQ' = st.q
               /\ invs' = [invs EXCEPT ![i].tasks[j].pc = "resolving",
                                       ![i].tasks[j].iterations = iterations,
                                       ![i].tasks[j].groups = groups]
               /\ UNCHANGED flag
          [] outcome = "ok" /\ lastPage /\ ItemsOf(groups) = <<>> ->
               /\ TaskDone(i, j, "", <<>>)
               /\ UNCHANGED <<calls, redisQ>>
          [] outcome = "empty" /\ lastPage ->
               /\ TaskDone(i, j, IF kind = "pocket" THEN "" ELSE "No tweets", <<>>)
               /\ UNCHANGED <<calls, redisQ>>
          [] outcome = "error" ->
               /\ TaskDone(i, j, IF kind = "pocket" THEN "request timeout" ELSE "err", <<>>)
               /\ UNCHANGED <<calls, redisQ>>
  /\ UNCHANGED <<cache, urlsList, netCount>>
  /\ UNCHANGED mergeVars
  /\ UNCHANGED fnVars

\* One run: a single invocation of fetchLists on a store that is empty or
\* holds a.com from an earlier run.
InitRun ==
  /\ cache \in {EmptyStore, SetKey(EmptyStore, UA, RecordOf(UA, T2))}
  /\ urlsList = KnownUrls(cache)
  /\ redisQ = <<>>
  /\ calls = [c \in 1..2 |-> IdleCall]
  /\ netCount = [k \in Keys |-> 0]
  /\ MergeIdle
  /\ FnIdle
  /\ flag = "0"
  /\ invs = [i \in 1..1 |-> IdleInv]

NextRun ==
  \/ \E i \in DOMAIN invs, lists \in ListConfigs : FetchLists(i, lists)
  \/ \E i \in DOMAIN invs : FlagGetReply(i)
  \/ \E i \in DOMAIN invs : FlagSetReply(i)
  \/ \E i \in DOMAIN invs, j \in 1..2, outcome \in ListOutcomes :
        ListResponse(i, j, outcome, TwitterTweets)
  \/ \E c \in Calls : GetReply(c)
  \/ \E c \in Calls, outcome \in Outcomes : Response(c, outcome)
  \/ \E c \in Calls : LinsertReply(c)
  \/ \E c \in Calls : LremReply(c)

SpecRun == InitRun /\ [][NextRun]_vars

\* One run in which every reply arrives: Redis answers every command, the
\* Pocket and Twitter APIs call back for every list fetch, and every page
\* request calls back.
RunFairness ==
  /\ WF_vars(\E i \in DOMAIN invs : FlagGetReply(i))
  /\ WF_vars(\E i \in DOMAIN invs : FlagSetReply(i))
  /\ WF_vars(\E i \in DOMAIN invs, j \in 1..2, outcome \in ListOutcomes :
                ListResponse(i, j, outcome, TwitterTweets))
  /\ WF_vars(\E c \in Calls : GetReply(c))
  /\ WF_vars(\E c \in Calls, outcome \in Outcomes : Response(c, outcome))
  /\ WF_vars(\E c \in Calls : LinsertReply(c))
  /\ WF_vars(\E c \in Calls : LremReply(c))

SpecRunFair == SpecRun /\ RunFairness

\* Several invocations of fetchLists on one store, each with at most the
\* Pocket list to fetch.
InitFlag ==
  /\ cache \in {EmptyStore, SetKey(EmptyStore, UA, RecordOf(UA, T2))}
  /\ urlsList = KnownUrls(cache)
  /\ redisQ = <<>>
  /\ calls = [c \in 1..MaxInv |-> IdleCall]
  /\ netCount = [k \in Keys |-> 0]
  /\ MergeIdle
  /\ FnIdle
  /\ RunIdle

NextFlag ==
  \/ \E i \in DOMAIN invs, lists \in {NoLists, PocketOnly} : FetchLists(i, lists)
  \/ \E i \in DOMAIN invs : FlagGetReply(i)
  \/ \E i \in DOMAIN invs : FlagSetReply(i)
  \/ \E i \in DOMAIN invs, outcome \in ListOutcomes :
        ListResponse(i, 1, outcome, TwitterTweets)
  \/ \E c \in Calls : GetReply(c)
  \/ \E c \in Calls, outcome \in Outcomes : Response(c, outcome)
  \/ \E c \in Calls : LinsertReply(c)
  \/ \E c \in Calls : LremReply(c)

SpecFlag == InitFlag /\ [][NextFlag]_vars

\* new Aggregator(config) on the store in use: the constructor writes 0 to
\* the run-in-progress flag.
Construct ==
  /\ flag' = "0"
  /\ UNCHANGED <<invs, cache, urlsList, redisQ, calls, netCount>>
  /\ UNCHANGED mergeVars
  /\ UNCHANGED fnVars

\* Invocations of fetchLists with Aggregators constructed in between.
NextRestart ==
  \/ NextFlag
  \/ Construct

SpecRestart == InitFlag /\ [][NextRestart]_vars

\* One Twitter list fetch whose reply holds up to MaxBatch links, spread
\* over tweets in every way, on a store that holds an entry for a.com.
MaxBatch == 6

TwitterOnly ==
  [pocket |-> <<>>, twitter |-> << [owner |-> "o", name |-> "l"] >>, oldList |-> <<>>]

TweetIds == <<"t1", "t2", "t3", "t4", "t5", "t6", "t7", "t8">>

\* n tweets of m links each: a.com, with and without junk parameters.
Batch(n, m) ==
  [g \in 1..n |->
     [urls |-> [k \in 1..m |-> IF k % 2 = 1 THEN UA ELSE UAj],
      tweetObj |-> [T1 EXCEPT !.id_str = TweetIds[g]]]]

BatchShapes == {x \in (1..MaxBatch) \X (1..MaxBatch) : x[1] * x[2] <= MaxBatch}

TweetBatches ==
  {Batch(x[1], x[2]) : x \in BatchShapes}
  \cup { << [urls |-> <<UB>>, tweetObj |-> T1] >>,
         << [urls |-> <<>>, tweetObj |-> T1], [urls |-> <<UA>>, tweetObj |-> T2] >> }

InitBatch ==
  /\ cache \in {SetKey(EmptyStore, UA, RecordOf(UA, T2)),
                SetKey(EmptyStore, UA, ScrapeErrorObj("HTTP 404")),
                SetKey(EmptyStore, UA, RemovedObj(UA))}
  /\ urlsList = KnownUrls(cache)
  /\ redisQ = <<>>
  /\ calls = [c \in 1..MaxBatch |-> IdleCall]
  /\ netCount = [k \in Keys |-> 0]
  /\ MergeIdle
  /\ FnIdle
  /\ flag = "0"
  /\ invs = [i \in 1..1 |-> IdleInv]

NextBatch ==
  \/ \E i \in DOMAIN invs : FetchLists(i, TwitterOnly)
  \/ \E i \in DOMAIN invs : FlagGetReply(i)
  \/ \E i \in DOMAIN invs : FlagSetReply(i)
  \/ \E i \in DOMAIN invs, outcome \in ListOutcomes, tweets \in TweetBatches :
        ListResponse(i, 1, outcome, tweets)
  \/ \E c \in Calls : GetReply(c)
  \/ \E c \in Calls, outcome \in Outcomes : Response(c, outcome)
  \/ \E c \in Calls : LinsertReply(c)
  \/ \E c \in Calls : LremReply(c)

SpecBatch == InitBatch /\ [][NextBatch]_vars

(***************************************************************************)
(* The record merger on its own: mergeUrls applied to records of every     *)
(* kind of origin, mention after mention.                                  *)
(***************************************************************************)
MaxMerges == 3

P2 == [kind |-> "pocket", id_str |-> "", favorite_count |-> 0, retweet_count |-> 0,
       listOwner |-> "", listName |-> "", text |-> "", created_at |-> 0,
       screen_name |-> "", username |-> "v", tag |-> "g", time_added |-> 98,
       item_id |-> "p2"]

MergeMentions == {T1, T2, P1, P2}

CacheIdle ==
  /\ cache = EmptyStore
  /\ urlsList = <<>>
  /\ redisQ = <<>>
  /\ calls = [c \in 1..MaxCalls |-> IdleCall]
  /\ netCount = [k \in Keys |-> 0]

InitMerge ==
  /\ CacheIdle
  /\ mRec \in { EmptyObj, RedirectObj(UA),
                 [EmptyObj EXCEPT !.url = UA, !.title = getPageTitle(UA),
                                  !.excerpt = getPageExcerpt(UA),
                                  !.articleTimestamp = getPublishedTime(UA)],
                 [EmptyObj EXCEPT !.url = UB, !.title = getPageTitle(UB),
                                  !.excerpt = getPageExcerpt(UB),
                                  !.articleTimestamp = getPublishedTime(UB)] }
  /\ mPrev = mRec
  /\ mMeta = T1
  /\ mCount = 0
  /\ RunIdle
  /\ FnIdle

Merge(urlMeta) ==
  /\ mCount < MaxMerges
  /\ mRec' = mergeUrls(mRec, urlMeta)
  /\ mPrev' = mRec
  /\ mMeta' = urlMeta
  /\ mCount' = mCount + 1
  /\ UNCHANGED cacheVars
  /\ UNCHANGED runVars
  /\ UNCHANGED fnVars

NextMerge == \E urlMeta \in MergeMentions : Merge(urlMeta)

SpecMerge == InitMerge /\ [][NextMerge]_vars

(***************************************************************************)
(* Ranking on its own: rankUrls applied to every short list of records     *)
(* and to longer lists with more distinct raw ranks than segments.         *)
(***************************************************************************)
MaxRanked == 2
MaxLadder == 12

\* A record as mergeUrls leaves it, with the fields that ranking reads.
RankRecord(u, fav, rt, np) ==
  [EmptyObj EXCEPT !.url = u, !.hasSource = TRUE, !.articleTimestamp = Now - 3000,
                   !.timestamp = Now - 3000, !.tweetFavoriteCount = fav,
                   !.tweetRetweetCount = rt,
                   !.pocketTimeAdded = [k \in 1..np |-> 99000]]

RankRecords ==
  {RankRecord(u, fav, rt, np) : u \in {UA, UB}, fav \in {0, 1, 7}, rt \in {0, 3},
                                np \in {0, 1}}
  \cup {EmptyObj}

\* A record with published time t.
PublishedAt(r, t) == [r EXCEPT !.articleTimestamp = t, !.timestamp = t]

\* n records, each older than the one before, favourites rising and
\* retweets falling.
Ladder(n) ==
  [k \in 1..n |-> PublishedAt(RankRecord(UA, k, n + 1 - k, 0), Now - 1000 * k)]

\* n records, each newer than the one before and with more retweets; n
\* records that differ in favourites alone, in age alone.
RetweetLadder(n) ==
  [k \in 1..n |-> PublishedAt(RankRecord(UA, 0, k, 0), Now - 1000 * (n - k))]
FavoriteLadder(n) == [k \in 1..n |-> RankRecord(UA, k, 0, 0)]
AgeLadder(n) == [k \in 1..n |-> PublishedAt(RankRecord(UA, 1, 1, 0), Now - 1000 * (n - k))]

RankInputs ==
  UNION {[1..n -> RankRecords] : n \in 0..MaxRanked}
  \cup {Ladder(n) : n \in 1..MaxLadder}
  \cup {RetweetLadder(n) : n \in 1..MaxLadder}
  \cup {FavoriteLadder(n) : n \in 1..MaxLadder}
  \cup {AgeLadder(n) : n \in 1..MaxLadder}

InitRank ==
  /\ CacheIdle
  /\ MergeIdle
  /\ RunIdle
  /\ fnArgs \in RankInputs
  /\ fnResults = <<>>

RankUrls ==
  /\ fnResults = <<>>
  /\ fnResults' = <<rankUrls(fnArgs)>>
  /\ UNCHANGED fnArgs
  /\ UNCHANGED cacheVars
  /\ UNCHANGED mergeVars
  /\ UNCHANGED runVars

\* What fetchLists does with the ranked list.
PostRank ==
  /\ Len(fnResults) = 1
  /\ fnResults' = Append(fnResults, fetchListsPostRank(fnResults[1]))
  /\ UNCHANGED fnArgs
  /\ UNCHANGED cacheVars
  /\ UNCHANGED mergeVars
  /\ UNCHANGED runVars

NextRank ==
  \/ RankUrls
  \/ PostRank

SpecRank == InitRank /\ [][NextRank]_vars

(***************************************************************************)
(* getStandardizedSegments on its own: every short array of counts, and    *)
(* rising and falling arrays of up to MaxCount values.                     *)
(***************************************************************************)
MaxShort == 3
MaxCount == 21

Counts == {0, 1, 2, 30}

Rising(n) == [k \in 1..n |-> k]
Falling(n) == [k \in 1..n |-> 3 * (n + 1 - k)]

SegmentInputs ==
  UNION {[1..n -> Counts] : n \in 1..MaxShort}
  \cup {Rising(n) : n \in 1..MaxCount}
  \cup {Falling(n) : n \in 1..MaxCount}

InitSegments ==
  /\ CacheIdle
  /\ MergeIdle
  /\ RunIdle
  /\ fnArgs \in SegmentInputs
  /\ fnResults = <<>>

StandardizedSegments ==
  /\ fnResults = <<>>
  /\ fnResults' = <<getStandardizedSegments(fnArgs)>>
  /\ UNCHANGED fnArgs
  /\ UNCHANGED cacheVars
  /\ UNCHANGED mergeVars
  /\ UNCHANGED runVars

NextSegments == StandardizedSegments

SpecSegments == InitSegments /\ [][NextSegments]_vars

(***************************************************************************)
(* getSegmentPosition on its own: a value against every short array of     *)
(* boundaries (in tenths), in any order.                                   *)
(***************************************************************************)
MaxBoundaries == 3

Boundaries == {11, 20, 30}

PositionInputs ==
  {[value |-> v, segments |-> b] :
      v \in 0..4, b \in UNION {[1..n -> Boundaries] : n \in 1..MaxBoundaries}}
  \cup {[value |-> v,
          segments |-> <<11, 330, 363, 385, 660, 968, 1100, 5500, 44000, 9900000>>] :
            v \in {10, 1000}}

InitPosition ==
  /\ CacheIdle
  /\ MergeIdle
  /\ RunIdle
  /\ fnArgs \in PositionInputs
  /\ fnResults = <<>>

SegmentPosition ==
  /\ fnResults = <<>>
  /\ \E segmentsSorted \in SortGtOutcomes(fnArgs.segments) :
        fnResults' = <<getSegmentPosition(fnArgs.value, segmentsSorted)>>
  /\ UNCHANGED fnArgs
  /\ UNCHANGED cacheVars
  /\ UNCHANGED mergeVars
  /\ UNCHANGED runVars

NextPosition == SegmentPosition

SpecPosition == InitPosition /\ [][NextPosition]_vars

(***************************************************************************)
(* removeJunkURLParams on its own: URLs with up to MaxParams query         *)
(* parameters, under several rule lists, canonicalized twice.              *)
(***************************************************************************)
MaxParams == 2

CanonHosts == {"a.com", "medium.com", "nytimes.com", "www.nytimes.com"}
CanonNames == {"utm_source", "q", "_r"}
CanonValues == {"tw", "x%20y", "x%2520y"}

\* Queries whose parameter names differ.
CanonQueries ==
  {q \in UNION {[1..n -> CanonNames \X CanonValues] : n \in 0..MaxParams} :
     \A i, j \in 1..Len(q) : i # j => q[i][1] # q[j][1]}

CanonUrls ==
  {[host |-> h, query |-> q, hash |-> f] :
      h \in CanonHosts, q \in CanonQueries, f \in {"", "#s"}}

RuleLists ==
  { defaultJunkParams,
    << DomainRule(<<"medium.com">>, <<>>, FALSE) >>,
    << DomainRule(<<"medium.com">>, <<>>, TRUE) >>,
    << DomainStringRule("www.nytimes.com", <<"_r">>, TRUE) >> }

InitCanon ==
  /\ CacheIdle
  /\ MergeIdle
  /\ RunIdle
  /\ fnArgs \in {[url |-> u, removeConfig |-> r] : u \in CanonUrls, r \in RuleLists}
  /\ fnResults = <<>>

\* removeJunkURLParams(url, removeConfig)
Canonicalize ==
  /\ fnResults = <<>>
  /\ fnResults' = <<removeJunkURLParamsWith(fnArgs.url, fnArgs.removeConfig)>>
  /\ UNCHANGED fnArgs
  /\ UNCHANGED cacheVars
  /\ UNCHANGED mergeVars
  /\ UNCHANGED runVars

\* removeJunkURLParams(output, removeConfig)
Recanonicalize ==
  /\ Len(fnResults) = 1
  /\ fnResults' = Append(fnResults,
                         removeJunkURLParamsWith(fnResults[1], fnArgs.removeConfig))
  /\ UNCHANGED fnArgs
  /\ UNCHANGED cacheVars
  /\ UNCHANGED mergeVars
  /\ UNCHANGED runVars

NextCanon ==
  \/ Canonicalize
  \/ Recanonicalize

SpecCanon == InitCanon /\ [][NextCanon]_vars

(***************************************************************************)
(* The final callback of fetchLists on its own: the results of the Pocket  *)
(* and the Twitter list fetch and the previous snapshot are combined,      *)
(* ranked and filtered.                                                    *)
(***************************************************************************)
MaxFound == 2
MaxOld == 2

\* The sequences of at most n elements of S.
SeqsUpTo(S, n) == UNION {[1..m -> S] : m \in 0..n}

\* What pocketToURLs hands on: per item a record, or nothing for a URL that
\* was rejected.
\* URLs of pages published some time ago.
UC == [host |-> "c.com", query |-> <<>>, hash |-> ""]
UD == [host |-> "d.com", query |-> <<>>, hash |-> ""]

FoundByPocket ==
  { <<>>, <<RecordOf(UA, P1)>>, <<PublishedAt(RecordOf(UC, P1), Now - 40000)>> }

\* What tweetsToURLs hands on.
FoundByTwitter ==
  { <<RecordOf(UA, T1)>>, <<mergeUrls(RecordOf(UA, T1), T2)>>,
    <<PublishedAt(RecordOf(UB, T1), Now - 10000)>> }

\* Records of the previous snapshot, ranked by the run that made it.
OldRecords ==
  { [RecordOf(UA, T2) EXCEPT !.rank = 3, !.rankRaw = 3000],
    [PublishedAt(RecordOf(UB, T2), Now - 10000) EXCEPT !.rank = 10, !.rankRaw = 9000],
    [PublishedAt(RecordOf(UB, T2), Now - 40000) EXCEPT !.rank = 1, !.rankRaw = 0],
    [PublishedAt(RecordOf(UD, T1), Now - 10000) EXCEPT
        !.tweetFavoriteCount = 0, !.rank = 1, !.rankRaw = 0] }

\* The result of a list fetch: none after an error, or its list.
ListResults(found) ==
  {<<>>} \cup {<<list>> : list \in SeqsUpTo(found, MaxFound)}

CombineInputs ==
  { [urls |-> <<p, t>>, oldList |-> o] :
      p \in ListResults(FoundByPocket), t \in ListResults(FoundByTwitter),
      o \in SeqsUpTo(OldRecords, MaxOld) }

InitCombine ==
  /\ CacheIdle
  /\ MergeIdle
  /\ RunIdle
  /\ fnArgs \in CombineInputs
  /\ fnResults = <<>>

\* The callback up to and including rankUrls.
Combine ==
  /\ fnResults = <<>>
  /\ fnResults' = <<rankUrls(fetchListsFresh(fnArgs.urls, fnArgs.oldList))>>
  /\ UNCHANGED fnArgs
  /\ UNCHANGED cacheVars
  /\ UNCHANGED mergeVars
  /\ UNCHANGED runVars

NextCombine ==
  \/ Combine
  \/ PostRank

SpecCombine == InitCombine /\ [][NextCombine]_vars

\* The key prefix and the run-in-progress flag on their own: the module
\* variable redisNS ('la-' when the module is loaded, the last override
\* after that) and the key
\* `${prefix}isCurrentlyFetching` of every prefix in use on the store; a
\* key that was never written reads as null.
MaxStarts == 2

RedisPrefixes == {"la-", "p-", "q-"}

\* config.redisPrefix: absent, or a prefix.
PrefixConfigs == {<<>>} \cup {<<p>> : p \in RedisPrefixes}

\* Stores on which no run is in progress: no flag key holds a start time.
QuietFlags == [RedisPrefixes -> {"null", "0"}]

\* The last fetchLists call has started a run that has not ended.
RunStarted == fnResults # <<>> /\ fnResults[Len(fnResults)] = "started"

InitPrefix ==
  /\ CacheIdle
  /\ MergeIdle
  /\ RunIdle
  /\ fnArgs \in {[redisNS |-> ns, isCurrentlyFetching |-> f, constructed |-> FALSE] :
                    ns \in RedisPrefixes, f \in QuietFlags}
  /\ fnResults = <<>>

\* new Aggregator(config): client.set of the flag under the prefix in
\* force, then the override of the prefix.  fnResults lists what the
\* fetchLists calls made since then have come to.
ConstructWith(config) ==
  /\ ~RunStarted
  /\ fnArgs' = [redisNS |-> IF config # <<>> THEN config[1] ELSE fnArgs.redisNS,
                isCurrentlyFetching |->
                   [fnArgs.isCurrentlyFetching EXCEPT ![fnArgs.redisNS] = "0"],
                constructed |-> TRUE]
  /\ fnResults' = <<>>
  /\ UNCHANGED <<cacheVars, mergeVars, runVars>>

\* fetchLists up to the start of the run: the flag is read, and unless the
\* reply is '0' the call is rejected; otherwise the start time is written.
FlagCheck ==
  /\ fnArgs.constructed
  /\ Len(fnResults) < MaxStarts
  /\ ~RunStarted
  /\ LET reply == fnArgs.isCurrentlyFetching[fnArgs.redisNS]
     IN IF reply # "0"
          THEN /\ fnResults' = Append(fnResults, "already active")
               /\ UNCHANGED fnArgs
          ELSE /\ fnResults' = Append(fnResults, "started")
               /\ fnArgs' = [fnArgs EXCEPT !.isCurrentlyFetching[fnArgs.redisNS] = "now"]
  /\ UNCHANGED <<cacheVars, mergeVars, runVars>>

\* The end of the run: the flag is written back to 0.
FlagReset ==
  /\ RunStarted
  /\ fnResults' = [fnResults EXCEPT ![Len(fnResults)] = "done"]
  /\ fnArgs' = [fnArgs EXCEPT !.isCurrentlyFetching[fnArgs.redisNS] = "0"]
  /\ UNCHANGED <<cacheVars, mergeVars, runVars>>

NextPrefix ==
  \/ \E config \in PrefixConfigs : ConstructWith(config)
  \/ FlagCheck
  \/ FlagReset

SpecPrefix == InitPrefix /\ [][NextPrefix]_vars

\* The end of a source batch on its own: what the getUrlDetails calls of
\* a batch have called back with, and the list the batch delivers.
MaxReply == 2

UT == [host |-> "twitter.com", query |-> <<>>, hash |-> ""]

\* Records that getUrlDetails calls back with for mention m: a page, a page
\* with an ignored word in its title or in its excerpt, and a page of
\* twitter.com that a link was redirected to.
ResolvedFor(m) ==
  { PublishedAt(RecordOf(UA, m), Now - 1000),
    [PublishedAt(RecordOf(UB, m), Now - 1000) EXCEPT !.title = <<"spam", "news">>],
    [PublishedAt(RecordOf(UB, m), Now - 2000) EXCEPT !.excerpt = <<"more", "spam">>],
    PublishedAt(RecordOf(UT, m), Now - 1000) }

\* Per call nothing (the URL was rejected) or a record.
BatchReplies(m) ==
  SeqsUpTo({<<>>} \cup {<<r>> : r \in ResolvedFor(m)}, MaxReply)

InitDeliver ==
  /\ CacheIdle
  /\ MergeIdle
  /\ RunIdle
  /\ fnArgs \in {[kind |-> "twitter", reply |-> r] : r \in BatchReplies(T1)}
                 \cup {[kind |-> "pocket", reply |-> r] : r \in BatchReplies(P1)}
  /\ fnResults = <<>>

\* The parallelLimit callback of tweetsToURLs or of pocketToURLs.
Deliver ==
  /\ fnResults = <<>>
  /\ fnResults' = << IF fnArgs.kind = "twitter"
                       THEN Maybes(tweetsToURLsDone(fnArgs.reply))
                       ELSE pocketToURLsDone(fnArgs.reply) >>
  /\ UNCHANGED <<fnArgs, cacheVars, mergeVars, runVars>>

NextDeliver == Deliver

SpecDeliver == InitDeliver /\ [][NextDeliver]_vars

\* _asyncGetTwitterList on its own, in grouped mode (multipleCallbacks not
\* set): the pages the Twitter API has answered with so far and the call
\* to cb.  A page is a sequence of tweet ids of at most MaxPage tweets.
MaxPage == 1

Pages == SeqsUpTo({"t1", "t2"}, MaxPage)

InitPaging ==
  /\ CacheIdle
  /\ MergeIdle
  /\ RunIdle
  /\ fnArgs = [iterations |-> 0, pages |-> <<>>]
  /\ fnResults = <<>>

\* The callback of codebird.__call('lists_statuses', ...) for a reply
\* without error.  tweets is the variable of the call of
\* _asyncGetTwitterList that made the request: every call starts with its
\* own empty list.
ListsStatusesReply(reply) ==
  /\ "pages" \in DOMAIN fnArgs
  /\ fnResults = <<>>
  /\ LET iterations == fnArgs.iterations + 1
         tweets == <<>> \o reply
     IN /\ fnArgs' = [iterations |-> iterations, pages |-> Append(fnArgs.pages, reply)]
        /\ fnResults' =
              IF iterations > pageLimit THEN <<[err |-> "", tweets |-> tweets]>>
              ELSE IF Len(reply) = 0
                   THEN <<[err |-> "Twitter API reply is 0 length", tweets |-> <<>>]>>
                   ELSE <<>>
  /\ UNCHANGED <<cacheVars, mergeVars, runVars>>

\* The same callback for an API error: cb(err).
ListsStatusesError ==
  /\ "pages" \in DOMAIN fnArgs
  /\ fnResults = <<>>
  /\ fnResults' = <<[err |-> "err", tweets |-> <<>>]>>
  /\ UNCHANGED <<fnArgs, cacheVars, mergeVars, runVars>>

NextPaging ==
  \/ \E reply \in Pages : ListsStatusesReply(reply)
  \/ ListsStatusesError

SpecPaging == InitPaging /\ [][NextPaging]_vars

\* getTwitterAuthor on its own.  A page is what the selectors of the
\* scraper see of it: the content of the twitter:creator and twitter:site
\* meta tags ("" when absent) and the anchors whose href holds
\* twitter.com/, in document order.  An anchor carries whether it lies in
\* a comment region and in an attribution region or footer, what its href
\* is (a share, intent, search or home link; a status link; any other
\* link), the segments of the pathname and the via and screen_name
\* parameters.  A string is held as the sequence of the words that
\* stripNonAlphaNumeric leaves of it, '' as <<>>.
MaxAnchors == 2

Anchor(isComment, isLikelyAuthor, kind, pathname, via, screen_name) ==
  [isComment |-> isComment, isLikelyAuthor |-> isLikelyAuthor, kind |-> kind,
   pathname |-> pathname, via |-> via, screen_name |-> screen_name]

Anchors ==
  { Anchor(FALSE, FALSE, "profile", <<"user">>, "", ""),
    Anchor(FALSE, TRUE, "profile", <<"writer">>, "", ""),
    Anchor(TRUE, FALSE, "profile", <<"reader">>, "", ""),
    Anchor(FALSE, FALSE, "profile", <<>>, "", ""),
    Anchor(FALSE, FALSE, "status", <<"poster", "status", "1">>, "", ""),
    Anchor(FALSE, FALSE, "share", <<"share">>, "viauser", ""),
    Anchor(FALSE, FALSE, "share", <<"intent", "user">>, "", "screenuser"),
    Anchor(FALSE, FALSE, "share", <<"share">>, "", "") }

AuthorPages ==
  { [creator |-> c, anchors |-> a, site |-> t] :
      c \in {"", "creator"}, a \in SeqsUpTo(Anchors, MaxAnchors), t \in {"", "site"} }

\* The first non-empty value of parameter name among the share, intent,
\* search and home links outside comment regions: via = via || ...
RECURSIVE FirstParam(_, _)
FirstParam(anchors, name) ==
  IF anchors = <<>> THEN ""
  ELSE IF ~anchors[1].isComment /\ anchors[1].kind = "share" /\ anchors[1][name] # ""
       THEN anchors[1][name]
       ELSE FirstParam(Tail(anchors), name)

\* linkTagMatches after the each loop: the pathname of every other link
\* that is not a status link, unshifted when the anchor is in an
\* attribution region or a footer, pushed otherwise.
RECURSIVE LinkTagMatches(_, _)
LinkTagMatches(anchors, matches) ==
  IF anchors = <<>> THEN matches
  ELSE LET linkTag == anchors[1]
       IN LinkTagMatches(Tail(anchors),
            IF linkTag.isComment \/ linkTag.kind # "profile" THEN matches
            ELSE IF linkTag.isLikelyAuthor THEN <<linkTag.pathname>> \o matches
            ELSE Append(matches, linkTag.pathname))

\* A meta content or parameter as a value that is falsy (<<>>) or a
\* string (<<words>>).
Truthy(str) == IF str = "" THEN <<>> ELSE << <<str>> >>

getTwitterAuthor(page) ==
  LET creator == Truthy(page.creator)
      linkTagMatches == LinkTagMatches(page.anchors, <<>>)
      \* a pathname is never the empty string: '/' at least
      fromLinks == IF creator # <<>> THEN creator
                   ELSE IF linkTagMatches = <<>> THEN <<>> ELSE <<linkTagMatches[1]>>
      fromSite == IF fromLinks # <<>> THEN fromLinks ELSE Truthy(page.site)
      screen_name == FirstParam(page.anchors, "screen_name")
      via == FirstParam(page.anchors, "via")
      author == IF fromSite # <<>> THEN fromSite
                ELSE Truthy(IF screen_name # "" THEN screen_name ELSE via)
  IN IF author = <<>> THEN <<>> ELSE author[1]

InitAuthor ==
  /\ CacheIdle
  /\ MergeIdle
  /\ RunIdle
  /\ fnArgs \in AuthorPages
  /\ fnResults = <<>>

TwitterAuthor ==
  /\ fnResults = <<>>
  /\ fnResults' = <<getTwitterAuthor(fnArgs)>>
  /\ UNCHANGED <<fnArgs, cacheVars, mergeVars, runVars>>

NextAuthor == TwitterAuthor

SpecAuthor == InitAuthor /\ [][NextAuthor]_vars

Next ==
  \/ \E c \in Calls, url \in RawUrls, urlMeta \in Mentions : StartResolve(c, url, urlMeta)
  \/ \E c \in Calls : GetReply(c)
  \/ \E c \in Calls, outcome \in Outcomes : Response(c, outcome)
  \/ \E c \in Calls : LinsertReply(c)
  \/ \E c \in Calls : LremReply(c)

Spec == Init /\ [][Next]_vars

\* The cache with three calls on an empty store: room for a fetch, a
\* second actor and a later resolve.
InitRedirect ==
  /\ cache = EmptyStore
  /\ urlsList = <<>>
  /\ redisQ = <<>>
  /\ calls = [c \in 1..(MaxCalls + 1) |-> IdleCall]
  /\ netCount = [k \in Keys |-> 0]
  /\ MergeIdle
  /\ FnIdle
  /\ RunIdle

SpecRedirect == InitRedirect /\ [][Next]_vars

\* Redirect chains: concurrent calls on an empty store, every one of them
\* for tweet T1, and every reply arrives: Redis answers every command and
\* every page request calls back.
InitChain ==
  /\ CacheIdle
  /\ MergeIdle
  /\ FnIdle
  /\ RunIdle

NextChain ==
  \/ \E c \in Calls, url \in RawUrls : StartResolve(c, url, T1)
  \/ \E c \in Calls : GetReply(c)
  \/ \E c \in Calls, outcome \in Outcomes : Response(c, outcome)
  \/ \E c \in Calls : LinsertReply(c)
  \/ \E c \in Calls : LremReply(c)

CacheFairness ==
  /\ WF_vars(\E c \in Calls : GetReply(c))
  /\ WF_vars(\E c \in Calls, outcome \in Outcomes : Response(c, outcome))
  /\ WF_vars(\E c \in Calls : LinsertReply(c))
  /\ WF_vars(\E c \in Calls : LremReply(c))

SpecChain == InitChain /\ [][NextChain]_vars /\ CacheFairness

(***************************************************************************)
(* Properties                                                              *)
(***************************************************************************)
IsTweet(urlMeta) == urlMeta.kind = "tweet"

\* C1: at most one fetchLists invocation is past the run-in-progress check
\* at a time, and an invocation started while another one has not finished
\* is rejected and starts no list fetch.
C1_OneInvocationPastCheck ==
  /\ Cardinality({i \in DOMAIN invs : invs[i].pc \in {"set", "running"}}) <= 1
  /\ \A i \in DOMAIN invs :
        invs[i].overlap => /\ invs[i].pc \in {"get", "rejected"}
                           /\ invs[i].tasks = <<>>

\* C2: when two distinct mentions of the same already-cached URL are
\* resolved by calls that overlap, then after both calls have completed the
\* cached record holds both mention IDs and counters equal to the previous
\* counters plus the counts of both mentions.
C2_NoLostUpdate ==
  \A c, d \in Calls :
     ( /\ c # d
       /\ calls[c].pc = "done" /\ calls[d].pc = "done"
       /\ calls[c].how = "merged" /\ calls[d].how = "merged"
       /\ calls[c].url = calls[d].url
       /\ IsTweet(calls[c].urlMeta) /\ IsTweet(calls[d].urlMeta)
       /\ calls[c].urlMeta.id_str # calls[d].urlMeta.id_str
       /\ calls[c].reply = calls[d].reply
       /\ IsResolved(calls[c].reply[1])
       /\ ~Contains(calls[c].reply[1].tweetIDs, calls[c].urlMeta.id_str)
       /\ ~Contains(calls[c].reply[1].tweetIDs, calls[d].urlMeta.id_str) )
     => LET prev == calls[c].reply[1]
            now == cache[calls[c].url]
        IN /\ Contains(now.tweetIDs, calls[c].urlMeta.id_str)
           /\ Contains(now.tweetIDs, calls[d].urlMeta.id_str)
           /\ now.tweetMentionCount = prev.tweetMentionCount + 2
           /\ now.tweetFavoriteCount =
                prev.tweetFavoriteCount + calls[c].urlMeta.favorite_count
                                        + calls[d].urlMeta.favorite_count
           /\ now.tweetRetweetCount =
                prev.tweetRetweetCount + calls[c].urlMeta.retweet_count
                                       + calls[d].urlMeta.retweet_count

\* C3: when one fetchLists run, on its own, has resolved one Pocket mention
\* and one Twitter mention of the same canonical URL, the list it returns
\* holds exactly one record for that URL and the record's source set is
\* {twitter, pocket}.
C3_OneRecordBothSources ==
  \A i \in DOMAIN invs :
     LET mine == {c \in Calls : calls[c].owner[1] = i}
         out == invs[i].out
         hits == {k \in 1..Len(out) : out[k].url = UA}
     IN ( /\ invs[i].pc = "done"
          /\ invs[i].lists = BothLists
          /\ \A k \in DOMAIN invs : k # i => invs[k].pc = "idle"
          /\ \A j \in 1..Len(invs[i].tasks) : invs[i].tasks[j].pc = "done"
          /\ {calls[c].urlMeta.kind : c \in mine} = {"tweet", "pocket"}
          /\ \A c \in mine : /\ calls[c].pc = "done"
                              /\ calls[c].how \in {"merged", "fetched"}
                              /\ calls[c].result # <<>>
                              /\ calls[c].result[1].url = UA )
        => /\ Cardinality(hits) = 1
           /\ \A k \in hits : Range(out[k].source) = {"twitter", "pocket"}

\* C4: mergeUrls applied to a record and a tweet whose id_str is already in
\* the record's tweetIDs returns the record unchanged (counters, texts, ids,
\* source and sourceDetails as before), so that merging the same tweet twice
\* equals merging it once.
C4_RemergeIsNoOp ==
  ( /\ mCount > 0
    /\ IsTweet(mMeta)
    /\ Contains(mPrev.tweetIDs, mMeta.id_str) )
  => /\ mRec.tweetMentionCount = mPrev.tweetMentionCount
     /\ mRec.tweetRetweetCount = mPrev.tweetRetweetCount
     /\ mRec.tweetFavoriteCount = mPrev.tweetFavoriteCount
     /\ mRec.tweetTexts = mPrev.tweetTexts
     /\ mRec.tweetIDs = mPrev.tweetIDs
     /\ mRec.source = mPrev.source
     /\ mRec.sourceDetails = mPrev.sourceDetails
     /\ mRec = mPrev

\* C4 witness: the last merge re-applied a tweet the record already held.
C4_Witness ==
  /\ mCount > 1
  /\ IsTweet(mMeta)
  /\ Contains(mPrev.tweetIDs, mMeta.id_str)
  /\ mPrev.tweetMentionCount > 0

\* C5: for every URL, no step of any getUrlDetails call lowers the tweet
\* counters of the Resolved record cached under it or removes an element of
\* its tweetIDs, pocketID or source.
C5_RecordsOnlyGrow ==
  [][ \A k \in DOMAIN cache :
        (IsResolved(cache[k]) /\ IsResolved(cache'[k]))
        => /\ cache'[k].tweetMentionCount >= cache[k].tweetMentionCount
           /\ cache'[k].tweetRetweetCount >= cache[k].tweetRetweetCount
           /\ cache'[k].tweetFavoriteCount >= cache[k].tweetFavoriteCount
           /\ Range(cache[k].tweetIDs) \subseteq Range(cache'[k].tweetIDs)
           /\ Range(cache[k].pocketID) \subseteq Range(cache'[k].pocketID)
           /\ Range(cache[k].source) \subseteq Range(cache'[k].source) ]_vars

\* C6: in every record in the cache, each tweet id is counted at most
\* once: tweetMentionCount equals the number of distinct ids in tweetIDs.
C6_MentionCountIsIdCount ==
  \A k \in DOMAIN cache :
     cache[k].hasSource
     => cache[k].tweetMentionCount = Cardinality(Range(cache[k].tweetIDs))

\* C6 witness: a call has merged a tweet into a cached record that already
\* held that tweet's id, and another record counts a tweet.
C6_Witness ==
  \E c \in Calls :
     /\ calls[c].pc = "done" /\ calls[c].how = "merged"
     /\ IsTweet(calls[c].urlMeta)
     /\ Contains(calls[c].reply[1].tweetIDs, calls[c].urlMeta.id_str)
     /\ cache[calls[c].url].tweetMentionCount >= 1

\* C7: the network request for a given canonical URL is issued at most
\* once, whatever the sequence and interleaving of getUrlDetails calls.
C7_FetchedAtMostOnce ==
  \A k \in DOMAIN netCount : netCount[k] <= 1

\* C8: the client.get callback of a call whose reply is a ScrapeError or a
\* Removed entry calls done with no record, issues no request and writes
\* nothing to the cache.
C8_TerminalEntryDropsMention ==
  [][ \A c \in Calls :
        ( /\ calls[c].pc = "get"
          /\ calls'[c] # calls[c]
          /\ calls[c].reply # <<>>
          /\ (IsScrapeError(calls[c].reply[1]) \/ IsRemoved(calls[c].reply[1])) )
        => /\ calls'[c].pc = "done"
           /\ calls'[c].result = <<>>
           /\ cache' = cache
           /\ netCount' = netCount
           /\ urlsList' = urlsList ]_vars

\* C8 witness: one call was dropped on a ScrapeError entry and another on
\* a Removed entry.
C8_Witness ==
  \E c, d \in Calls :
     /\ calls[c].pc = "done" /\ calls[c].reply # <<>>
     /\ IsScrapeError(calls[c].reply[1]) /\ calls[c].result = <<>>
     /\ calls[d].pc = "done" /\ calls[d].reply # <<>>
     /\ ~IsScrapeError(calls[d].reply[1]) /\ IsRemoved(calls[d].reply[1])
     /\ calls[d].result = <<>>

\* C9: the client.get callback of a call whose reply is a Redirect to the
\* very URL being resolved drops the mention: done is called with no
\* record, nothing is merged and the cache is left as it is.
C9_CircularRedirectDropsMention ==
  [][ \A c \in Calls :
        ( /\ calls[c].pc = "get"
          /\ calls'[c] # calls[c]
          /\ calls[c].reply # <<>>
          /\ ~IsScrapeError(calls[c].reply[1]) /\ ~IsRemoved(calls[c].reply[1])
          /\ calls[c].reply[1].redirect = calls[c].url )
        => /\ calls'[c].pc = "done"
           /\ calls'[c].result = <<>>
           /\ cache' = cache ]_vars

\* C10: once the fetch of URL A has ended at a final URL B with a different
\* canonical form, every getUrlDetails(A, mention) started later merges the
\* mention into the record stored under B and returns it without a network
\* request; the fetch itself leaves Redirect(B) under A and a Resolved
\* record under B.
C10_RedirectIsFollowed ==
  \A c, d \in Calls :
     ( /\ c \in calls[d].after
       /\ calls[c].requested # calls[c].url
       /\ calls[d].first = calls[c].requested
       /\ calls[d].pc \notin {"idle", "get"} )
     => /\ calls[d].pc = "done"
        /\ calls[d].how = "merged"
        /\ ~calls[d].fetched
        /\ calls[d].url = calls[c].url
        /\ calls[d].result # <<>>
        /\ Contains(calls[d].result[1].tweetIDs \o calls[d].result[1].pocketID,
                    IF IsTweet(calls[d].urlMeta) THEN calls[d].urlMeta.id_str
                    ELSE calls[d].urlMeta.item_id)

\* C11: a fetch made on a cache miss that gets no response, a status other
\* than 200, or a content type that is missing or not text/html leaves under
\* the URL an entry that later resolves treat as a ScrapeError, and hands
\* its caller no record (nothing, or the empty object that is discarded).
C11_FailedFetchStoresScrapeError ==
  [][ \A c \in Calls :
        ( /\ calls[c].pc = "request"
          /\ calls'[c].pc = "done"
          /\ calls'[c].how \in {"noResponse", "unsupported", "status"} )
        => /\ calls[c].requested \in DOMAIN cache'
           /\ GetReplyBranch(<<cache'[calls[c].requested]>>, calls[c].requested)
                = "scraperError"
           /\ calls'[c].result \in {<<>>, <<EmptyObj>>} ]_vars

\* C12: a page fetch that times out or fails at the network level (no
\* response, or an error without a terminal status or content type) writes
\* nothing to the cache.
C12_NetworkFailureNotCached ==
  [][ \A c \in Calls :
        ( /\ calls[c].pc = "request"
          /\ calls'[c].pc = "done"
          /\ calls'[c].how \in {"noResponse", "error"} )
        => cache' = cache ]_vars

\* C13: whenever no uniqueLPUSH is under way, the known-URLs list holds
\* every URL at most once, also after calls for the same URL whose store
\* commands interleaved.
C13_KnownUrlsUnique ==
  (\A c \in Calls : calls[c].pc \notin {"linsert", "lrem"})
  => \A i, j \in 1..Len(urlsList) : i # j => urlsList[i] # urlsList[j]

\* The ID of a mention: the tweet's id_str or the Pocket item's item_id.
MentionId(urlMeta) == IF IsTweet(urlMeta) THEN urlMeta.id_str ELSE urlMeta.item_id

\* C14: mergeUrls is commutative over mentions with different IDs: the
\* record obtained by merging the last mention and then another one has
\* the same counters, the same id, text, source and source-detail sets,
\* the same timestamp and the same first/last mention times as the record
\* obtained by merging the two in the other order.
C14_MergeCommutes ==
  \A m2 \in MergeMentions :
     ( /\ mCount > 0
       /\ MentionId(m2) # MentionId(mMeta) )
     => LET a == mergeUrls(mRec, m2)
            b == mergeUrls(mergeUrls(mPrev, m2), mMeta)
        IN /\ a.tweetMentionCount = b.tweetMentionCount
           /\ a.tweetRetweetCount = b.tweetRetweetCount
           /\ a.tweetFavoriteCount = b.tweetFavoriteCount
           /\ Range(a.tweetIDs) = Range(b.tweetIDs)
           /\ Range(a.pocketID) = Range(b.pocketID)
           /\ Range(a.tweetTexts) = Range(b.tweetTexts)
           /\ Range(a.source) = Range(b.source)
           /\ Range(a.sourceDetails) = Range(b.sourceDetails)
           /\ a.timestamp = b.timestamp
           /\ a.tweetFirstMentionMS = b.tweetFirstMentionMS
           /\ a.tweetLastMentionMS = b.tweetLastMentionMS

\* The getUrlDetails calls of list fetch j of invocation i that have not
\* called back yet.
InFlight(i, j) ==
  {c \in Calls : calls[c].owner = <<i, j>> /\ calls[c].pc \notin {"idle", "done"}}

\* C15: while tweetsToURLs processes the tweets of one Twitter list, at
\* most 5 getUrlDetails calls are in flight, however many tweets there are
\* and however many URLs a tweet has.
C15_AtMostFiveInFlight ==
  \A i \in DOMAIN invs : \A j \in 1..Len(invs[i].tasks) :
     invs[i].tasks[j].kind = "twitter" => Cardinality(InFlight(i, j)) <= resolveLimit

\* C16: while an invocation of fetchLists that set the run-in-progress flag
\* has not finished, constructing a new Aggregator on the same store leaves
\* the flag set (so that a fetchLists call made afterwards is rejected).
C16_FlagSurvivesConstruct ==
  [][ ( /\ invs' = invs
        /\ flag # "0"
        /\ \E i \in DOMAIN invs : invs[i].pc \in {"set", "running"} )
      => flag' = flag ]_vars

\* C17: fetchLists reports an error to its caller when every list fetch
\* failed and no previous snapshot (oldList) was supplied.
C17_ErrorWhenNothingFetched ==
  \A i \in DOMAIN invs :
     ( /\ invs[i].pc = "done"
       /\ Len(invs[i].tasks) > 0
       /\ \A k \in 1..Len(invs[i].tasks) : invs[i].tasks[k].pc = "failed"
       /\ invs[i].lists.oldList = <<>> )
     => invs[i].err # ""

\* C18: mergeUrls sets the best-known timestamp of a record only when the
\* record has none yet: merging a further mention into a record whose
\* timestamp is set leaves the timestamp unchanged.
C18_TimestampSetOnce ==
  (mCount > 0 /\ mPrev.timestamp # 0) => mRec.timestamp = mPrev.timestamp

\* A record whose published time is unknown and whose mention or save time
\* lies inside the staleness window, and which is an article without ignore
\* words.
FreshByMention(r) ==
  /\ r.url # NoUrl
  /\ r.articleTimestamp = 0
  /\ r.timestamp > Now - msInAMonth
  /\ filterUrlObjsWithIgnoreWords(filterNonArticleObjs(<<r>>), ignoreWords) = <<r>>

\* The records that getUrlDetails handed to list fetch j of invocation i.
Resolved(i, j) ==
  {calls[c].result[1] : c \in {d \in Calls : /\ calls[d].owner = <<i, j>>
                                             /\ calls[d].pc = "done"
                                             /\ calls[d].result # <<>>}}

\* C19: the staleness filters judge a record by its best-known timestamp:
\* a record with unknown published time and a mention or save time inside
\* the window survives the filter of tweetsToURLs and the filter that
\* fetchLists applies before ranking.
C19_FreshMentionSurvives ==
  \A i \in DOMAIN invs : \A j \in 1..Len(invs[i].tasks) :
     invs[i].tasks[j].pc = "done" =>
       \A r \in Resolved(i, j) :
          FreshByMention(r) =>
            /\ \E k \in 1..Len(invs[i].tasks[j].result[1]) :
                  invs[i].tasks[j].result[1][k] = <<r>>
            /\ (invs[i].pc = "done" /\ \A m \in 1..Len(invs[i].tasks) :
                                         invs[i].tasks[m].pc = "done")
               => LET fresh == fetchListsFresh(
                                 [m \in 1..Len(invs[i].tasks) |-> invs[i].tasks[m].result],
                                 invs[i].lists.oldList)
                  IN \E k \in 1..Len(fresh) : fresh[k].url = r.url

\* C20: every record in the list returned by rankUrls has an integer rank
\* between 1 and 10 inclusive.
C20_RankInRange ==
  fnResults # <<>> =>
    \A k \in 1..Len(fnResults[1]) : fnResults[1][k].rank \in 1..totalSegments

\* rankUrls has ranked a list with more distinct raw ranks than segments,
\* giving the best record rank 10 and the worst rank 1.
C20_Witness ==
  /\ fnResults # <<>>
  /\ Cardinality({fnResults[1][k].rankRaw : k \in 1..Len(fnResults[1])}) > totalSegments
  /\ fnResults[1][1].rank = totalSegments
  /\ fnResults[1][Len(fnResults[1])].rank = 1

\* The sort key of a record, and the lexicographic order on keys.
SortKey(r) == <<r.rankRaw, r.tweetRetweetCount, r.tweetFavoriteCount, r.timestamp>>

KeyNotBelow(x, y) ==
  \/ x = y
  \/ \E n \in 1..4 : x[n] > y[n] /\ \A m \in 1..(n - 1) : x[m] = y[m]

Descending(list) ==
  \A k \in 1..(Len(list) - 1) : KeyNotBelow(SortKey(list[k]), SortKey(list[k + 1]))

\* C21: the list returned by rankUrls is ordered by descending rankRaw,
\* then descending retweet count, favorite count and timestamp, and the
\* list that fetchLists makes of it keeps that order.
C21_RankedDescending ==
  \A n \in 1..Len(fnResults) : Descending(fnResults[n])

\* fetchLists has removed records from a ranked list in which two
\* neighbours tie on rankRaw and differ in retweets.
C21_Witness ==
  /\ Len(fnResults) = 2
  /\ Len(fnResults[2]) < Len(fnResults[1])
  /\ Len(fnResults[2]) > 1
  /\ \E k \in 1..(Len(fnResults[1]) - 1) :
        /\ fnResults[1][k].rankRaw = fnResults[1][k + 1].rankRaw
        /\ fnResults[1][k].tweetRetweetCount > fnResults[1][k + 1].tweetRetweetCount

\* The buckets of a record among the records handed to rankUrls.
PocketBucket(r) ==
  getSegmentPosition(Len(r.pocketTimeAdded),
                     getPocketSegments([k \in 1..Len(fnArgs) |->
                                          Len(fnArgs[k].pocketTimeAdded)]))
RetweetBucket(r) ==
  getSegmentPosition(r.tweetRetweetCount,
                     getObjSegments([k \in 1..Len(fnArgs) |-> fnArgs[k].tweetRetweetCount]))
FavoriteBucket(r) ==
  getSegmentPosition(r.tweetFavoriteCount,
                     getObjSegments([k \in 1..Len(fnArgs) |-> fnArgs[k].tweetFavoriteCount]))

\* C22: getURLRank orders records lexicographically by bookmark bucket,
\* retweet bucket, favorite bucket, each an index in 0..9: a higher
\* bookmark bucket gives a strictly higher rankRaw, and among equal
\* bookmark buckets a higher retweet bucket does, whatever the rest.
C22_RankRawLexicographic ==
  fnResults # <<>> =>
    \A k, l \in 1..Len(fnResults[1]) :
       LET a == fnResults[1][k]
           b == fnResults[1][l]
       IN /\ {PocketBucket(a), RetweetBucket(a), FavoriteBucket(a)} \subseteq 0..9
          /\ PocketBucket(a) > PocketBucket(b) => a.rankRaw > b.rankRaw
          /\ (PocketBucket(a) = PocketBucket(b) /\ RetweetBucket(a) > RetweetBucket(b))
             => a.rankRaw > b.rankRaw

\* rankUrls has ranked a bookmarked record above one that has the higher
\* retweet and favorite buckets.
C22_Witness ==
  /\ fnResults # <<>>
  /\ \E k, l \in 1..Len(fnResults[1]) :
        /\ PocketBucket(fnResults[1][k]) > PocketBucket(fnResults[1][l])
        /\ RetweetBucket(fnResults[1][k]) < RetweetBucket(fnResults[1][l])
        /\ FavoriteBucket(fnResults[1][k]) < FavoriteBucket(fnResults[1][l])
        /\ fnResults[1][k].rankRaw > fnResults[1][l].rankRaw

\* The value at 0-based index j of arr sorted in ascending order.
SortedAt(arr, j, v) ==
  /\ Cardinality({k \in 1..Len(arr) : arr[k] < v}) <= j
  /\ j < Cardinality({k \in 1..Len(arr) : arr[k] <= v})

\* C23: getStandardizedSegments returns exactly 10 boundaries in
\* non-decreasing order; fewer than 10 values are left-padded with zeros
\* and returned sorted, and for a length n that is a multiple of 10 the
\* i-th boundary is the sorted value at index i * (n / 10) - 1.  (The
\* boundaries are held in tenths.)
C23_TenAscendingBoundaries ==
  fnResults # <<>> =>
    LET arr == fnArgs
        n == Len(arr)
        segments == fnResults[1]
    IN /\ Len(segments) = totalSegments
       /\ \A i \in 1..(Len(segments) - 1) : segments[i] <= segments[i + 1]
       /\ n < totalSegments =>
            /\ \A i \in 1..(totalSegments - n) : segments[i] = 0
            /\ \A i \in 1..n : SortedAt([k \in 1..n |-> 10 * arr[k]], i - 1,
                                         segments[totalSegments - n + i])
       /\ n % totalSegments = 0 =>
            \A i \in 1..totalSegments :
               SortedAt([k \in 1..n |-> 10 * arr[k]], i * (n \div totalSegments) - 1,
                        segments[i])

\* getStandardizedSegments has been applied to an unsorted array whose
\* length is above 10 and no multiple of 10.
C23_Witness ==
  /\ fnResults # <<>>
  /\ Len(fnArgs) > totalSegments
  /\ Len(fnArgs) % totalSegments # 0
  /\ fnArgs[1] > fnArgs[2]

\* C24: getSegmentPosition(value, boundaries) returns the 0-based index,
\* in ascending order of the boundaries, of the first boundary that the
\* value does not exceed (as many boundaries come before it as the value
\* exceeds), the last index when the value exceeds them all, and always an
\* index in 0..length-1.
C24_FirstBoundaryNotExceeded ==
  fnResults # <<>> =>
    LET segments == fnArgs.segments
        exceeded == Cardinality({k \in 1..Len(segments) : 10 * fnArgs.value > segments[k]})
    IN /\ fnResults[1] \in 0..(Len(segments) - 1)
       /\ fnResults[1] = IF exceeded = Len(segments) THEN Len(segments) - 1 ELSE exceeded

\* C25: removeJunkURLParams is idempotent for a fixed rule list: applied
\* to its own output it returns that output unchanged.
C25_CanonIdempotent ==
  Len(fnResults) = 2 => fnResults[2] = fnResults[1]

\* A per-domain rule that names host h: h is in its domain array, or is
\* its domain string.
RuleNames(param, h) ==
  /\ param.kind = "object"
  /\ IF param.domainString # "" THEN param.domainString = h ELSE Contains(param.domain, h)

\* C26: removeJunkURLParams removes the hash fragment when a per-domain
\* rule that names the URL's host has removeHash set, and otherwise leaves
\* it as it is: rules for other hosts and rules without removeHash do not
\* touch it.
C26_HashKeptUnlessRuleForHost ==
  fnResults # <<>> =>
    LET removeConfig == fnArgs.removeConfig
        named == \E i \in 1..Len(removeConfig) :
                    RuleNames(removeConfig[i], fnArgs.url.host) /\ removeConfig[i].removeHash
    IN fnResults[1].hash = IF named THEN "" ELSE fnArgs.url.hash

\* The names of the categories one of whose keywords is a word of the text.
KeywordsIn(text) ==
  {categories[i].name : i \in {j \in 1..Len(categories) :
      \E w \in 1..Len(text), k \in 1..Len(categories[j].keywords) :
         text[w] = categories[j].keywords[k]}}

\* C27: after mergeUrls the record's categories are exactly those whose
\* keywords occur in its URL plus title; when there is none, and only
\* then, they are categories whose keywords occur in the excerpt.
C27_CategoriesFromUrlAndTitle ==
  mCount > 0 =>
    LET fromUrlTitle == KeywordsIn(UrlWords(mRec.url)
                           \o (IF mRec.title = <<>> THEN <<"undefined">> ELSE mRec.title))
    IN IF fromUrlTitle # {}
       THEN Range(mRec.categories) = fromUrlTitle
       ELSE Range(mRec.categories) \subseteq KeywordsIn(mRec.excerpt)

\* A merged record whose title matches one category and whose excerpt
\* matches another: only the first is kept.
C27_Witness ==
  /\ mCount > 0
  /\ mRec.categories = <<"Foo">>
  /\ "Bar" \in KeywordsIn(mRec.excerpt)

\* C28: an invocation of fetchLists that has set the flag eventually
\* resets it to 0 and calls done, and calls done only once, when every list
\* fetch and every page fetch calls back.
C28_FlagEventuallyReset ==
  /\ \A i \in {1} : (invs[i].pc = "set") ~> (invs[i].pc = "done" /\ flag = "0")
  /\ [][\A i \in {1} : invs[i].pc = "done" => invs'[i].pc = "done"]_vars

\* An invocation that fetched both lists has called done and the flag is 0
\* again.
C28_Witness ==
  /\ invs[1].pc = "done"
  /\ flag = "0"
  /\ Len(invs[1].tasks) = 2
  /\ \A j \in 1..2 : invs[1].tasks[j].pc = "done"
  /\ invs[1].tasks[2].iterations > pageLimit

\* List fetch j of invocation i is in flight: its list API reply, or one of
\* the page fetches it made, is outstanding.
FetchInFlight(i, j) ==
  \/ invs[i].tasks[j].pc \in {"api", "resolving"}
  \/ \E c \in Calls : calls[c].owner = <<i, j>> /\ calls[c].pc \notin {"idle", "done"}

\* C29: once an invocation of fetchLists has reset the flag and called
\* done, none of its list fetches and page fetches is in flight, also when
\* a list fetch failed.
C29_NothingInFlightAtReset ==
  \A i \in DOMAIN invs :
     invs[i].pc = "done" =>
        \A j \in 1..Len(invs[i].tasks) : ~FetchInFlight(i, j)

\* C30: a cache entry that is a scrape error or a removed record is
\* terminal: no step of getUrlDetails or fetchUrlDetails, a fetch of another
\* URL that is redirected onto its key included, replaces or changes it.
C30_TerminalEntriesStay ==
  [][\A k \in DOMAIN cache :
        IsScrapeError(cache[k]) \/ IsRemoved(cache[k]) =>
           k \in DOMAIN cache' /\ cache'[k] = cache[k]]_vars

\* The records that the list fetches of a run handed on, in order.
FoundRecords(urls) == Concat(Concat(Concat(urls)))

\* A record without the ranks that rankUrls gives it.
Unranked(r) == [r EXCEPT !.rank = 0, !.rankRaw = 0]

\* C31: the list that fetchLists returns holds at most one record per URL,
\* and for a URL that this run found the record is one this run produced,
\* also when the previous snapshot holds a record of that URL.
C31_OneRecordPerUrlFromThisRun ==
  Len(fnResults) = 2 /\ "urls" \in DOMAIN fnArgs =>
    LET out == fnResults[2]
        found == FoundRecords(fnArgs.urls)
    IN /\ \A a, b \in 1..Len(out) : a # b => out[a].url # out[b].url
       /\ \A a \in 1..Len(out) :
             (\E f \in 1..Len(found) : found[f].url = out[a].url) =>
                \E f \in 1..Len(found) : Unranked(found[f]) = Unranked(out[a])

\* A URL that the run found and the previous snapshot holds is returned.
C31_Witness ==
  /\ Len(fnResults) = 2 /\ "urls" \in DOMAIN fnArgs
  /\ \E a \in 1..Len(fnResults[2]) :
        /\ fnResults[2][a].url = UA
        /\ \E o \in 1..Len(fnArgs.oldList) : fnArgs.oldList[o].url = UA
        /\ \E f \in 1..Len(FoundRecords(fnArgs.urls)) :
              FoundRecords(fnArgs.urls)[f].url = UA

\* C32: when a run of fetchLists has ended, the record it returns for a
\* URL counts every tweet of the run that mentions the URL: its
\* tweetMentionCount and tweetIDs are those of the record cached under the
\* URL.
C32_ReturnedRecordCountsAllTweets ==
  \A i \in DOMAIN invs :
     invs[i].pc = "done" /\ (\A c \in Calls : calls[c].pc \in {"idle", "done"}) =>
        \A k \in 1..Len(invs[i].out) :
           LET r == invs[i].out[k]
           IN r.url \in DOMAIN cache =>
                /\ r.tweetIDs = cache[r.url].tweetIDs
                /\ r.tweetMentionCount = cache[r.url].tweetMentionCount

\* C34: after new Aggregator(config), with or without a redisPrefix, on a
\* store where no run is in progress, the first fetchLists call is not
\* rejected as already active.
C34_FirstFetchNotRejected ==
  ("constructed" \in DOMAIN fnArgs /\ fnResults # <<>>) =>
     fnResults[1] # "already active"

\* The key reached from key k by following n redirect fields of the
\* store, NoUrl when the chain ends before that.
RECURSIVE Follow(_, _, _)
Follow(store, k, n) ==
  IF n = 0 THEN k
  ELSE IF k \in DOMAIN store /\ store[k].redirect # NoUrl
       THEN Follow(store, store[k].redirect, n - 1)
       ELSE NoUrl

HasRedirectCycle(store) ==
  \E k \in DOMAIN store : \E n \in 1..Cardinality(DOMAIN store) : Follow(store, k, n) = k

C35_ReturnedRecordsFresh ==
  (Len(fnResults) = 2 /\ "urls" \in DOMAIN fnArgs) =>
     /\ \A k \in 1..Len(fnResults[2]) :
          LET r == fnResults[2][k]
          IN /\ r.timestamp > Now - msInAMonth
             /\ r.rank < 6 => Now - r.timestamp <= msInAWeek
     /\ \A k \in 1..Len(fnResults[1]) :
          fnResults[1][k].rank >= 6 => Contains(fnResults[2], fnResults[1][k])

\* The filters have acted: a record older than 30 days was dropped before
\* ranking, a low-ranking record older than a week after it, and a record
\* older than a week that ranks 6 or higher is returned.
C35_Witness ==
  /\ Len(fnResults) = 2
  /\ "urls" \in DOMAIN fnArgs
  /\ \E k \in 1..Len(FoundRecords(fnArgs.urls)) :
        /\ FoundRecords(fnArgs.urls)[k].timestamp <= Now - msInAMonth
        /\ \A m \in 1..Len(fnResults[1]) :
              fnResults[1][m].url # FoundRecords(fnArgs.urls)[k].url
  /\ \E k \in 1..Len(fnResults[1]) :
        fnResults[1][k].rank < 6 /\ ~Contains(fnResults[2], fnResults[1][k])
  /\ \E k \in 1..Len(fnResults[2]) :
        fnResults[2][k].rank >= 6 /\ Now - fnResults[2][k].timestamp > msInAWeek

\* C36: no record that a source batch delivers, Twitter or Pocket, has an
\* ignore word in its URL, title or excerpt, and none has a URL within
\* twitter.com.
C36_DeliveredRecordsFiltered ==
  ("kind" \in DOMAIN fnArgs /\ fnResults # <<>>) =>
     \A k \in 1..Len(Concat(fnResults[1])) :
        LET r == Concat(fnResults[1])[k]
        IN /\ ~HasIgnoreWord(UrlWords(r.url) \o r.title \o r.excerpt, ignoreWords)
           /\ r.url.host # "twitter.com"

\* C37: in every record the number of bookmark times, which ranking counts,
\* is the number of Pocket item ids merged into it, and pocketTag,
\* pocketTimeAdded and pocketID have the same length.
C37_PocketListsAligned ==
  /\ Len(mRec.pocketTimeAdded) = Len(mRec.pocketID)
  /\ Len(mRec.pocketTag) = Len(mRec.pocketID)

\* C38: in grouped mode _asyncGetTwitterList delivers without error only
\* after the fifth page, and the sequence it delivers is the
\* concatenation of all pages it fetched, in the order of the requests.
C38_AllPagesDelivered ==
  ("pages" \in DOMAIN fnArgs /\ fnResults # <<>> /\ fnResults[1].err = "") =>
     /\ Len(fnArgs.pages) = pageLimit + 1
     /\ fnResults[1].tweets = Concat(fnArgs.pages)

\* The handles that the anchors of a page outside comment regions offer:
\* the first path segment of a profile link, the via or screen_name of a
\* share or intent link; status links offer none.
HandlesOf(anchors, likelyOnly) ==
  { a.pathname[1] : a \in { b \in Range(anchors) :
                              /\ ~b.isComment /\ b.kind = "profile" /\ b.pathname # <<>>
                              /\ (likelyOnly => b.isLikelyAuthor) } }
  \cup (IF likelyOnly THEN {}
        ELSE { b.via : b \in { c \in Range(anchors) :
                                 ~c.isComment /\ c.kind = "share" /\ c.via # "" } }
             \cup { b.screen_name : b \in { c \in Range(anchors) :
                                 ~c.isComment /\ c.kind = "share" /\ c.screen_name # "" } })

\* C39: getTwitterAuthor returns the twitter:creator meta when there is
\* one; otherwise a handle of an anchor outside the comment regions, of an
\* anchor in an attribution region or footer when one offers a handle;
\* and the twitter:site meta only when neither gives a handle.  A status
\* link offers no handle.
C39_FirstCandidateWins ==
  ("anchors" \in DOMAIN fnArgs /\ fnResults # <<>>) =>
     LET author == fnResults[1]
         likely == HandlesOf(fnArgs.anchors, TRUE)
         any == HandlesOf(fnArgs.anchors, FALSE)
     IN IF fnArgs.creator # "" THEN author = <<fnArgs.creator>>
        ELSE IF likely # {} THEN author \in {<<h>> : h \in likely}
        ELSE IF any # {} THEN author \in {<<h>> : h \in any}
        ELSE author = (IF fnArgs.site # "" THEN <<fnArgs.site>> ELSE <<>>)

====
